---- MODULE Spec2Model ----
(***************************************************************************)
(* A model of the ChatGPT-to-Obsidian plugin's core logic (src/main.js):   *)
(*   - extractConversations: the reduction of a conversation's message     *)
(*     tree to its linear thread;                                          *)
(*   - the Q&A pair identity and the pair metadata store, with its         *)
(*     write-through persistence to the vault.                             *)
(*   - loadConversationMetadata and getConversationProcessingStatus;       *)
(*   - SaveNoteModal.saveNote: the note's path, the note's creation and    *)
(*     the recording of the pair as SAVED.                                 *)
(* Strings the code computes on (message parts, ids) are sequences of      *)
(* one-character strings, so that join, trim and concatenation are         *)
(* computed and not assumed.                                               *)
(***************************************************************************)
EXTENDS Integers, Sequences, FiniteSets, TLC

VARIABLES
    \* ---- extractConversations, one conversation of the export ----
    mapping,     \* conv.mapping: key -> node, keys iterated in ascending order
    current,     \* the walk's cursor: a key, or 0 for undefined/null
    messages,    \* the thread built so far
    walked,      \* history: the keys the while loop has visited, in order
    epc,         \* "find" | "walk" | "done"
    \* ---- generateQAPairId, called for two pairs of the view ----
    idArgs,      \* the two (conversationId, userMsgId, assistantMsgId) triples
    idOut,       \* the two ids returned, <<>> before the calls
    \* ---- the plugin instance and the vault's metadata document ----
    lifecycle,     \* "constructed" | "ready" (onload has loaded the metadata)
                   \* | "failed" (onload was rejected)
    metadataStore, \* this.metadataStore: [qaPairs, lastUpdated]
    metadataFile,  \* .chatgpt-plugin-metadata.json in the vault
    calls,         \* the pending updateQAPairState calls, by slot
    issued,        \* history: per pair, the state of the latest update issued
    updates,       \* history: the number of updates issued so far
    history,       \* history: "none" | "clean" (every update so far was issued
                   \* with none pending, and none was rejected) | "dirty"
    lastGet,       \* the latest getQAPairState call and what it returned
    reader,        \* a second plugin instance constructed and loaded later
    lastStatus,    \* the latest getConversationProcessingStatus call and result
    \* ---- a SaveNoteModal and the vault's notes ----
    vault,         \* the vault's entries: path -> "folder" | "old" | "note"
    save,          \* the modal's saveNote call: arguments, position, locals
    \* ---- the ChatGPTImportModal ----
    modal,         \* conversations, currentConversationIndex, viewMode
    view           \* the pairs' action buttons as rendered, and the notices

extractVars == <<mapping, current, messages, walked, epc>>
idVars == <<idArgs, idOut>>
storeVars == <<lifecycle, metadataStore, metadataFile, calls, issued, updates, history>>
observerVars == <<lastGet, reader, lastStatus, modal, view>>
viewVars == <<modal, view>>
saveVars == <<vault, save>>
vars == <<mapping, current, messages, walked, epc, idArgs, idOut,
          lifecycle, metadataStore, metadataFile, calls, issued, updates, history,
          lastGet, reader, lastStatus, vault, save, modal, view>>

(***************************************************************************)
(* Bounds                                                                  *)
(***************************************************************************)
MaxNodes == 4
MaxRevisits == 1
MaxIdLen == 1
MaxUpdates == 3
\* The largest number of assistant messages a conversation of the list has.
MaxTotal == 3
\* The most saveNote calls a modal gets.
MaxSaveCalls == 2

Keys == 1..MaxNodes
\* A child id that names no node of the mapping.
DanglingKey == MaxNodes + 1

(***************************************************************************)
(* Strings                                                                 *)
(***************************************************************************)
Whitespace == {" ", "\n", "\t"}

RECURSIVE Join(_, _)
\* Array.prototype.join: the parts with sep between consecutive parts.
Join(parts, sep) ==
    IF Len(parts) = 0 THEN <<>>
    ELSE IF Len(parts) = 1 THEN parts[1]
    ELSE parts[1] \o sep \o Join(Tail(parts), sep)

RECURSIVE TrimStart(_)
TrimStart(s) ==
    IF Len(s) > 0 /\ s[1] \in Whitespace THEN TrimStart(Tail(s)) ELSE s

RECURSIVE TrimEnd(_)
TrimEnd(s) ==
    IF Len(s) > 0 /\ s[Len(s)] \in Whitespace
    THEN TrimEnd(SubSeq(s, 1, Len(s) - 1)) ELSE s

\* String.prototype.trim
Trim(s) == TrimEnd(TrimStart(s))

(***************************************************************************)
(* The export's message tree                                               *)
(***************************************************************************)
NullMessage ==
    [isNull |-> TRUE, role |-> "none", hasParts |-> FALSE, parts |-> <<>>,
     hasTime |-> FALSE, create_time |-> 0]

Message(role, hasParts, parts, hasTime, t) ==
    [isNull |-> FALSE, role |-> role, hasParts |-> hasParts, parts |-> parts,
     hasTime |-> hasTime, create_time |-> t]

\* The messages a node of the bounded exports may carry: a tombstone, a system
\* message, a user prompt, an answer in two parts and without create_time, and
\* an answer whose parts are all whitespace.
MessageChoices ==
    { NullMessage,
      Message("system", TRUE, << <<"s">> >>, TRUE, 1),
      Message("user", TRUE, << <<"q">> >>, TRUE, 7),
      Message("assistant", TRUE, << <<"a">>, <<"b">> >>, FALSE, 0),
      Message("assistant", TRUE, << <<" ">>, <<>> >>, TRUE, 9) }

\* The messages of the corrupt exports: every role, parts present or not.
CorruptMessage(k) ==
    CASE k = 1 -> Message("system", TRUE, << <<"s">> >>, TRUE, 1)
      [] k % 3 = 2 -> Message("user", TRUE, << <<"q">> >>, TRUE, 7)
      [] k % 3 = 0 -> Message("tool", TRUE, << <<"t">>, <<"\n">> >>, FALSE, 0)
      [] OTHER -> Message("user", FALSE, <<>>, TRUE, 3)

Node(k, msg, parent, children) ==
    [id |-> k, message |-> msg, parent |-> parent, children |-> children]

RECURSIVE KeysWithParent(_, _, _)
\* The keys k..MaxNodes whose parent is p, ascending.
KeysWithParent(parentOf, p, k) ==
    IF k > MaxNodes THEN <<>>
    ELSE (IF parentOf[k] = p THEN <<k>> ELSE <<>>)
         \o KeysWithParent(parentOf, p, k + 1)

Reverse(s) == [i \in 1..Len(s) |-> s[Len(s) + 1 - i]]

\* A well-formed export: parent pointers and children lists agree. The nodes
\* with an odd key list their children in key order, the others in reverse, so
\* that the order of a children list and the iteration order of the mapping
\* are independent.
TreeMapping(parentOf, msgOf) ==
    [k \in Keys |->
        Node(k, msgOf[k], parentOf[k],
             IF k % 2 = 0 THEN Reverse(KeysWithParent(parentOf, k, 1))
             ELSE KeysWithParent(parentOf, k, 1))]

ParentChoices == {f \in [Keys -> 0..(MaxNodes - 1)] : \A k \in Keys : f[k] < k}

\* A corrupt export: children lists that disagree with the parent pointers,
\* name a missing node, or close a cycle.
ChildChoices == {<<>>} \cup {<<c>> : c \in Keys \cup {DanglingKey}}

CorruptMapping(childOf) ==
    [k \in Keys |-> Node(k, CorruptMessage(k), k - 1, childOf[k])]

(***************************************************************************)
(* extractConversations                                                    *)
(***************************************************************************)
\* Mutant of IsRoot: the parent's role is not looked at.
IsRoot_AnyParent(m, k) ==
    /\ ~m[k].message.isNull
    /\ m[k].message.role = "user"
    /\ m[k].parent # 0

\* The predicate of Object.values(mapping).find(...).
IsRoot(m, k) ==
    /\ ~m[k].message.isNull
    /\ m[k].message.role = "user"
    /\ m[k].parent # 0
    /\ m[k].parent \in DOMAIN m
    /\ ~m[m[k].parent].message.isNull
    /\ m[m[k].parent].message.role = "system"

RECURSIVE FindFrom(_, _)
\* Array.prototype.find over the values in iteration order: the first key
\* from k on that satisfies IsRoot, or 0 (undefined).
FindFrom(m, k) ==
    IF k > MaxNodes THEN 0
    ELSE IF k \in DOMAIN m /\ IsRoot(m, k) THEN k
    ELSE FindFrom(m, k + 1)

FindRootNode(m) == FindFrom(m, 1)

\* current.message.content.parts?.join('\n') || ''
ContentOf(msg) == IF msg.hasParts THEN Join(msg.parts, <<"\n">>) ELSE <<>>

\* Mutant of ShouldEmit: the content is tested without trim().
ShouldEmit_NoTrim(node) ==
    /\ ~node.message.isNull
    /\ node.message.role # "system"
    /\ ContentOf(node.message) # <<>>

\* The two nested ifs that guard messages.push.
ShouldEmit(node) ==
    /\ ~node.message.isNull
    /\ node.message.role # "system"
    /\ Trim(ContentOf(node.message)) # <<>>

ThreadEntry(node) ==
    [role |-> node.message.role,
     content |-> ContentOf(node.message),
     timestamp |-> IF node.message.hasTime THEN node.message.create_time ELSE 0,
     id |-> node.id]

\* Mutant of NextNode: the newest (last) child is followed.
NextNode_LastChild(m, node) ==
    IF Len(node.children) > 0 /\ node.children[Len(node.children)] \in DOMAIN m
    THEN node.children[Len(node.children)]
    ELSE 0

\* Mutant of NextNode: a node that emits nothing ends the walk.
NextNode_StopAtSkipped(m, node) ==
    IF ShouldEmit(node) /\ Len(node.children) > 0 /\ node.children[1] \in DOMAIN m
    THEN node.children[1]
    ELSE 0

\* current.children.length > 0 ? mapping[current.children[0]] : null
NextNode(m, node) ==
    IF Len(node.children) > 0 /\ node.children[1] \in DOMAIN m
    THEN node.children[1]
    ELSE 0

ExtractInit ==
    /\ \/ \E parentOf \in ParentChoices, msgOf \in [Keys -> MessageChoices] :
               mapping = TreeMapping(parentOf, msgOf)
       \/ \E childOf \in [Keys -> ChildChoices] :
               mapping = CorruptMapping(childOf)
    /\ current = 0
    /\ messages = <<>>
    /\ walked = <<>>
    /\ epc = "find"

FindRoot ==
    /\ epc = "find"
    /\ current' = FindRootNode(mapping)
    /\ epc' = "walk"
    /\ UNCHANGED <<mapping, messages, walked>>
    /\ UNCHANGED <<idVars, storeVars, observerVars, saveVars>>

\* One iteration of while (current). The loop has no bound of its own; the
\* guard on walked stops the model on a cyclic export after MaxRevisits
\* iterations more than there are nodes.
WalkStep ==
    /\ epc = "walk"
    /\ current # 0
    /\ Len(walked) < MaxNodes + MaxRevisits
    /\ messages' = IF ShouldEmit(mapping[current])
                   THEN Append(messages, ThreadEntry(mapping[current]))
                   ELSE messages
    /\ walked' = Append(walked, current)
    /\ current' = NextNode(mapping, mapping[current])
    /\ UNCHANGED <<mapping, epc>>
    /\ UNCHANGED <<idVars, storeVars, observerVars, saveVars>>

ExtractReturn ==
    /\ epc = "walk"
    /\ current = 0
    /\ epc' = "done"
    /\ UNCHANGED <<mapping, current, messages, walked>>
    /\ UNCHANGED <<idVars, storeVars, observerVars, saveVars>>

ExtractNext == FindRoot \/ WalkStep \/ ExtractReturn

(***************************************************************************)
(* generateQAPairId                                                        *)
(***************************************************************************)
IdChars == {"a", "_"}

RECURSIVE StringsUpTo(_)
\* The strings over IdChars of length at most n.
StringsUpTo(n) ==
    IF n = 0 THEN {<<>>}
    ELSE LET S == StringsUpTo(n - 1)
         IN S \cup {Append(s, c) : s \in S, c \in IdChars}

IdStrings == StringsUpTo(MaxIdLen)

\* userMsg ? userMsg.id : 'no-user-msg'
NoUserMsg == <<"n", "o", "-", "u", "s", "e", "r", "-", "m", "s", "g">>

IdTriples == IdStrings \X (IdStrings \cup {NoUserMsg}) \X IdStrings

\* Mutant of generateQAPairId: the second separator is left out.
generateQAPairId_NoSeparator(conversationId, userMsgId, assistantMsgId) ==
    conversationId \o <<"_">> \o userMsgId \o assistantMsgId

\* `${conversationId}_${userMsgId}_${assistantMsgId}`
generateQAPairId(conversationId, userMsgId, assistantMsgId) ==
    conversationId \o <<"_">> \o userMsgId \o <<"_">> \o assistantMsgId

IdInit ==
    /\ idArgs \in IdTriples \X IdTriples
    /\ idOut = <<>>

\* The view derives the ids of two of its pairs.
GenerateIds ==
    /\ idOut = <<>>
    /\ idOut' = <<generateQAPairId(idArgs[1][1], idArgs[1][2], idArgs[1][3]),
                  generateQAPairId(idArgs[2][1], idArgs[2][2], idArgs[2][3])>>
    /\ UNCHANGED <<idArgs, extractVars, storeVars, observerVars, saveVars>>

\* The view is rendered again with the same messages.
RenderAgain ==
    /\ idOut # <<>>
    /\ idOut' = <<>>
    /\ UNCHANGED <<idArgs, extractVars, storeVars, observerVars, saveVars>>

IdNext == GenerateIds \/ RenderAgain

(***************************************************************************)
(* The pair metadata store and its document                                *)
(***************************************************************************)
PairIds == {"c1_u1_a1", "c1_u2_a2"}

QAPairStates == {"new", "ignored", "saved"}

\* conv.id of the conversation a pair of the view belongs to.
ConversationOf(p) == IF p = "c2_u1_a1" THEN "c2" ELSE "c1"

\* A text is a sequence of runs, each of len copies of one character.
Text(ch, len) == IF len = 0 THEN <<>> ELSE <<[ch |-> ch, len |-> len]>>

\* userMsg ? userMsg.content : "" and assistantMsg.content of each pair.
PromptOf(p) ==
    CASE p = "c1_u1_a1" -> Text("q", 12)
      [] p = "c1_u2_a2" -> Text("a", 200)
      [] OTHER -> Text("", 0)

ResponseOf(p) ==
    CASE p = "c1_u1_a1" -> Text("r", 100)
      [] p = "c1_u2_a2" -> Text("b", 200)
      [] OTHER -> Text("r", 101)

PreviewLength == 100

\* Mutant of SubstringTo: the character at index n is kept too.
RECURSIVE SubstringTo_Inclusive(_, _)
SubstringTo_Inclusive(t, n) ==
    IF t = <<>> \/ n < 0 THEN <<>>
    ELSE IF Head(t).len <= n
         THEN <<Head(t)>> \o SubstringTo_Inclusive(Tail(t), n - Head(t).len)
    ELSE <<[Head(t) EXCEPT !.len = n + 1]>>

\* String.prototype.substring(0, n)
RECURSIVE SubstringTo(_, _)
SubstringTo(t, n) ==
    IF t = <<>> \/ n <= 0 THEN <<>>
    ELSE IF Head(t).len <= n
         THEN <<Head(t)>> \o SubstringTo(Tail(t), n - Head(t).len)
    ELSE <<[Head(t) EXCEPT !.len = n]>>

EmptyPairs == [p \in {} |-> 0]

\* { qaPairs: {}, lastUpdated: Date.now() }
EmptyStore(now) == [qaPairs |-> EmptyPairs, lastUpdated |-> now]

\* The vault's document: absent, or a text that is no JSON, or the JSON of an
\* object with or without the keys conversations and qaPairs.
NoFile ==
    [exists |-> FALSE, json |-> FALSE, hasConversations |-> FALSE,
     hasQaPairs |-> FALSE, qaPairs |-> EmptyPairs, lastUpdated |-> 0]

Document(json, hasConversations, hasQaPairs, qaPairs, lastUpdated) ==
    [exists |-> TRUE, json |-> json, hasConversations |-> hasConversations,
     hasQaPairs |-> hasQaPairs, qaPairs |-> qaPairs, lastUpdated |-> lastUpdated]

\* JSON.stringify(this.metadataStore, null, 2)
Stringify(store) == Document(TRUE, FALSE, TRUE, store.qaPairs, store.lastUpdated)

Metadata(pairId, state, conversationId, userPrompt, response, now) ==
    [pairId |-> pairId,
     conversationId |-> conversationId,
     state |-> state,
     timestamp |-> now,
     userPrompt |-> SubstringTo(userPrompt, PreviewLength),
     responsePreview |-> SubstringTo(response, PreviewLength)]

\* The documents the vault may hold when the plugin starts.
InitialFiles ==
    { NoFile,
      Document(FALSE, FALSE, FALSE, EmptyPairs, 0),
      Document(TRUE, TRUE, FALSE, EmptyPairs, 0),
      Document(TRUE, FALSE, FALSE, EmptyPairs, 0),
      Stringify([qaPairs |-> [p \in {"c1_u2_a2"} |->
                     Metadata(p, "saved", ConversationOf(p), PromptOf(p),
                              ResponseOf(p), 0)],
                 lastUpdated |-> 0]) }

\* loadConversationMetadata: what this.metadataStore is afterwards. readOk says
\* whether adapter.read returned the text; a missing document never reads.
loadConversationMetadata(file, readOk, now) ==
    IF ~(file.exists /\ readOk) THEN EmptyStore(now)
    ELSE IF ~file.json THEN EmptyStore(now)
    ELSE IF file.hasConversations THEN EmptyStore(now)
    ELSE IF file.hasQaPairs
         THEN [qaPairs |-> file.qaPairs, lastUpdated |-> file.lastUpdated]
    ELSE EmptyStore(now)

\* Mutant of loadOutcome: the read error of a missing document is thrown on.
loadOutcome_RethrowReadError(file, readOk) ==
    IF ~(file.exists /\ readOk) THEN "rejected" ELSE "resolved"

\* Mutant of loadOutcome: a document of an unknown shape is an error.
loadOutcome_RejectUnknownShape(file, readOk) ==
    IF ~(file.exists /\ readOk) THEN "resolved"
    ELSE IF ~file.json THEN "resolved"
    ELSE IF file.hasConversations \/ file.hasQaPairs THEN "resolved"
    ELSE "rejected"

\* loadConversationMetadata: how the promise it returns settles. The read
\* error is caught and the method returns; whatever JSON.parse or the shape
\* tests throw is caught by the outer catch, which logs it and returns.
loadOutcome(file, readOk) ==
    IF ~(file.exists /\ readOk) THEN "resolved"
    ELSE IF ~file.json THEN "resolved"
    ELSE "resolved"

\* Mutant of getQAPairState: the entry is not looked at.
getQAPairState_AlwaysNew(store, pairId) == "new"

\* metadata ? metadata.state : QAPairState.NEW
getQAPairState(store, pairId) ==
    IF pairId \in DOMAIN store.qaPairs THEN store.qaPairs[pairId].state
    ELSE "new"

\* Mutant of WithPair: a reset to NEW deletes the pair's entry.
WithPair_ResetDeletes(qaPairs, entry) ==
    IF entry.state = "new"
    THEN [q \in DOMAIN qaPairs \ {entry.pairId} |-> qaPairs[q]]
    ELSE [q \in DOMAIN qaPairs \cup {entry.pairId} |->
             IF q = entry.pairId THEN entry ELSE qaPairs[q]]

\* Mutant of WithPair: the entry a pair has is kept.
WithPair_KeepsEntry(qaPairs, entry) ==
    IF entry.pairId \in DOMAIN qaPairs THEN qaPairs
    ELSE [q \in DOMAIN qaPairs \cup {entry.pairId} |->
             IF q = entry.pairId THEN entry ELSE qaPairs[q]]

\* this.metadataStore.qaPairs[pairId] = {...}
WithPair(qaPairs, entry) ==
    [q \in DOMAIN qaPairs \cup {entry.pairId} |->
        IF q = entry.pairId THEN entry ELSE qaPairs[q]]

\* Mutant of SaveContent: the document is serialised before the assignment.
SaveContent_Stale(before, after) == Stringify(before)

\* The content saveConversationMetadata serialises, given the store before and
\* after the assignment of updateQAPairState.
SaveContent(before, after) == Stringify(after)

\* Mutant of AfterSaveError: the failed update is taken back.
AfterSaveError_RollBack(store, pairId) ==
    [store EXCEPT !.qaPairs = [q \in DOMAIN store.qaPairs \ {pairId} |->
                                  store.qaPairs[q]]]

\* catch (error) { console.error(...); throw error; }: the store stays as it is.
AfterSaveError(store, pairId) == store

\* Mutant of AfterIo: a create that throws is not followed by a write.
AfterIo_NoFallback(pc, ok) ==
    CASE pc = "read" -> IF ok THEN "write" ELSE "create"
      [] OTHER -> IF ok THEN "resolved" ELSE "rejected"

\* Mutant of AfterIo: a failed fallback write is swallowed.
AfterIo_SwallowFallback(pc, ok) ==
    CASE pc = "read" -> IF ok THEN "write" ELSE "create"
      [] pc = "write" -> IF ok THEN "resolved" ELSE "rejected"
      [] pc = "create" -> IF ok THEN "resolved" ELSE "fallback"
      [] OTHER -> "resolved"

\* saveConversationMetadata's control flow: where the call is after the
\* operation it awaited at pc returned (ok) or threw.
AfterIo(pc, ok) ==
    CASE pc = "read" -> IF ok THEN "write" ELSE "create"
      [] pc = "write" -> IF ok THEN "resolved" ELSE "rejected"
      [] pc = "create" -> IF ok THEN "resolved" ELSE "fallback"
      [] OTHER -> IF ok THEN "resolved" ELSE "rejected"

Slots == {1, 2}

\* A slot no pending call occupies.
IdleCall ==
    [pc |-> "idle", pairId |-> "", state |-> "", content |-> NoFile,
     persisted |-> FALSE,
     \* history: the operation awaited last, and whether an operation threw
     \* that the document's presence or absence did not make throw
     op |-> "none", fault |-> FALSE]

InFlight(i) == calls[i].pc \in {"read", "write", "create", "fallback"}

Settled(i) == calls[i].pc \in {"resolved", "rejected"}

\* Date.now(): the time of the session. The documents of InitialFiles were
\* written at time 0.
Now == 1

NoGet == [valid |-> FALSE, pairId |-> "", result |-> ""]
\* No import modal is open.
NoModal == <<>>
NoView == <<>>
NoReader ==
    [loaded |-> FALSE, readOk |-> FALSE, store |-> EmptyStore(0),
     outcome |-> "none"]
NoneIssued == [p \in PairIds |-> "none"]
NoStatus ==
    [valid |-> FALSE, conversationId |-> "", given |-> FALSE, total |-> 0,
     result |-> ""]

StoreInit ==
    /\ lifecycle = "constructed"
    /\ metadataStore = EmptyStore(0)
    /\ metadataFile \in InitialFiles
    /\ calls = [i \in Slots |-> IdleCall]
    /\ issued = NoneIssued
    /\ updates = 0
    /\ history = "none"

\* onload: await this.loadConversationMetadata()
OnLoad ==
    /\ lifecycle = "constructed"
    /\ \E readOk \in BOOLEAN :
          /\ metadataStore' = loadConversationMetadata(metadataFile, readOk, Now)
          /\ lifecycle' = IF loadOutcome(metadataFile, readOk) = "rejected"
                          THEN "failed" ELSE "ready"
    /\ UNCHANGED <<metadataFile, calls, issued, updates, history>>
    /\ lastGet' = NoGet
    /\ UNCHANGED <<extractVars, idVars, reader, lastStatus, saveVars, viewVars>>

\* updateQAPairState up to the first await of saveConversationMetadata: the
\* entry is assigned, lastUpdated stamped and the content serialised. The
\* call takes the first slot that is idle.
updateQAPairState(pairId, state, conversationId, userPrompt, response) ==
    /\ lifecycle = "ready"
    /\ updates < MaxUpdates
    /\ updates' = updates + 1
    /\ \E i \in Slots :
          /\ calls[i].pc = "idle"
          /\ \A j \in Slots : j < i => calls[j].pc # "idle"
          /\ LET entry == Metadata(pairId, state, conversationId,
                                   userPrompt, response, Now)
                 after == [qaPairs |-> WithPair(metadataStore.qaPairs, entry),
                           lastUpdated |-> Now]
             IN /\ metadataStore' = after
                /\ calls' = [calls EXCEPT ![i] =
                      [pc |-> "read", pairId |-> pairId, state |-> state,
                       content |-> SaveContent(metadataStore, after),
                       persisted |-> FALSE, op |-> "none", fault |-> FALSE]]
    /\ issued' = [issued EXCEPT ![pairId] = state]
    /\ history' = IF history = "dirty" \/ \E j \in Slots : InFlight(j)
                  THEN "dirty" ELSE "clean"
    /\ UNCHANGED <<metadataFile, lifecycle>>
    /\ lastGet' = NoGet
    /\ UNCHANGED <<extractVars, idVars, reader, lastStatus>>

\* The call of the view's handlers and of saveNote, with the pair's texts.
UpdateQAPairState(pairId, state) ==
    updateQAPairState(pairId, state, ConversationOf(pairId), PromptOf(pairId),
                      ResponseOf(pairId))

\* An awaited vault operation of the call in slot i returns or throws.
\* adapter.read returns only if the document exists, vault.create only if it
\* does not; every operation may fail for a reason of the vault's own.
SaveIo(i, ok) ==
    /\ InFlight(i)
    /\ calls[i].pc = "read" /\ ok => metadataFile.exists
    /\ calls[i].pc = "create" /\ ok => ~metadataFile.exists
    /\ LET pc == AfterIo(calls[i].pc, ok)
           wrote == ok /\ calls[i].pc # "read"
           threwAlone ==
               /\ ~ok
               /\ CASE calls[i].pc = "read" -> metadataFile.exists
                    [] calls[i].pc = "create" -> ~metadataFile.exists
                    [] OTHER -> TRUE
       IN /\ calls' = [calls EXCEPT ![i].pc = pc,
                                    ![i].persisted = calls[i].persisted \/ wrote,
                                    ![i].op = calls[i].pc,
                                    ![i].fault = calls[i].fault \/ threwAlone]
          /\ metadataFile' = IF wrote THEN calls[i].content ELSE metadataFile
          /\ metadataStore' = IF pc = "rejected"
                              THEN AfterSaveError(metadataStore, calls[i].pairId)
                              ELSE metadataStore
          /\ history' = IF pc = "rejected" THEN "dirty" ELSE history
    /\ UNCHANGED <<lifecycle, issued, updates>>
    /\ lastGet' = NoGet
    /\ UNCHANGED <<extractVars, idVars, reader, lastStatus, saveVars, viewVars>>

SaveRead(i) == calls[i].pc = "read" /\ \E ok \in BOOLEAN : SaveIo(i, ok)
SaveWrite(i) == calls[i].pc = "write" /\ \E ok \in BOOLEAN : SaveIo(i, ok)
SaveCreate(i) == calls[i].pc = "create" /\ \E ok \in BOOLEAN : SaveIo(i, ok)
SaveFallback(i) == calls[i].pc = "fallback" /\ \E ok \in BOOLEAN : SaveIo(i, ok)

\* The caller's await returns or throws: the call is over.
Settle(i) ==
    /\ Settled(i)
    /\ calls' = [calls EXCEPT ![i] = IdleCall]
    /\ UNCHANGED <<lifecycle, metadataStore, metadataFile, issued, updates, history>>
    /\ lastGet' = NoGet
    /\ UNCHANGED <<extractVars, idVars, reader, lastStatus, saveVars, viewVars>>

\* The pair whose state the user changes in quick succession, and the texts
\* the k-th call is given with state s: of lengths below, at and above the
\* preview length, of one run or of two.
RapidPair == "c1_u1_a1"

RapidPrompt(k, s) ==
    CASE s = "new" -> Text("n", k) \o Text("p", PreviewLength - 2)
      [] s = "ignored" -> Text("p", (PreviewLength \div 2) * (k - 1)) \o Text("z", k)
      [] OTHER -> Text("p", PreviewLength - k) \o Text("z", 2 * k)

RapidResponse(k, s) == Text("r", PreviewLength * (k - 1)) \o Text("s", k)

\* The plugin is loaded, on any of the documents.
RapidInit ==
    /\ lifecycle = "ready"
    /\ metadataFile \in InitialFiles
    /\ metadataStore = loadConversationMetadata(metadataFile, TRUE, Now)
    /\ calls = [i \in Slots |-> IdleCall]
    /\ issued = NoneIssued
    /\ updates = 0
    /\ history = "none"

\* updateQAPairState is called for the pair, not awaiting the calls before.
RapidUpdate ==
    /\ \E s \in QAPairStates :
          updateQAPairState(RapidPair, s, ConversationOf(RapidPair),
                            RapidPrompt(updates + 1, s),
                            RapidResponse(updates + 1, s))
    /\ UNCHANGED <<saveVars, viewVars>>

Update ==
    /\ \E p \in PairIds, s \in QAPairStates : UpdateQAPairState(p, s)
    /\ UNCHANGED <<saveVars, viewVars>>
Read == \E i \in Slots : SaveRead(i)
Write == \E i \in Slots : SaveWrite(i)
Create == \E i \in Slots : SaveCreate(i)
Fallback == \E i \in Slots : SaveFallback(i)
Return == \E i \in Slots : Settle(i)

StoreNext == OnLoad \/ Update \/ Read \/ Write \/ Create \/ Fallback \/ Return

\* The view asks for a pair's state and renders it. What getQAPairState
\* returned is used by its caller at once: every other step drops it.
GetQAPairState ==
    /\ \E p \in PairIds :
          lastGet' = [valid |-> TRUE, pairId |-> p,
                      result |-> getQAPairState(metadataStore, p)]
    /\ UNCHANGED <<storeVars, reader, extractVars, idVars, lastStatus, saveVars, viewVars>>

\* Mutant of getConversationProcessingStatus: the pairs the store does not
\* record yet are not counted as NEW.
getConversationProcessingStatus_IgnoreTotal(store, conversationId, given, total) ==
    LET pairs == {p \in DOMAIN store.qaPairs :
                     store.qaPairs[p].conversationId = conversationId}
        newCount == Cardinality({p \in pairs : store.qaPairs[p].state = "new"})
        processedPairs ==
            Cardinality({p \in pairs : store.qaPairs[p].state # "new"})
    IN IF ~given
       THEN IF Cardinality(pairs) = 0 THEN "unprocessed"
            ELSE IF newCount = 0 THEN "processed" ELSE "partial"
       ELSE IF newCount = 0 THEN "processed"
            ELSE IF processedPairs > 0 THEN "partial"
            ELSE "unprocessed"

\* Mutant of getConversationProcessingStatus: without a total, a conversation
\* with no recorded pair has no NEW pair and counts as processed.
getConversationProcessingStatus_NoEmptyTest(store, conversationId, given, total) ==
    LET pairs == {p \in DOMAIN store.qaPairs :
                     store.qaPairs[p].conversationId = conversationId}
        newPairs == Cardinality({p \in pairs : store.qaPairs[p].state = "new"})
        processedPairs ==
            Cardinality({p \in pairs : store.qaPairs[p].state # "new"})
        totalNewPairs == newPairs + (total - Cardinality(pairs))
    IN IF ~given
       THEN IF newPairs = 0 THEN "processed" ELSE "partial"
       ELSE IF totalNewPairs = 0 THEN "processed"
            ELSE IF processedPairs > 0 THEN "partial"
            ELSE "unprocessed"

\* getConversationProcessingStatus(conversationId, totalAssistantMessages?);
\* given says whether the second argument was passed (is not undefined).
getConversationProcessingStatus(store, conversationId, given, total) ==
    LET pairs == {p \in DOMAIN store.qaPairs :
                     store.qaPairs[p].conversationId = conversationId}
        newPairs == Cardinality({p \in pairs : store.qaPairs[p].state = "new"})
        processedPairs ==
            Cardinality({p \in pairs : store.qaPairs[p].state # "new"})
        unprocessedPairs == total - Cardinality(pairs)
        totalNewPairs == newPairs + unprocessedPairs
    IN IF ~given
       THEN IF Cardinality(pairs) = 0 THEN "unprocessed"
            ELSE IF newPairs = 0 THEN "processed" ELSE "partial"
       ELSE IF totalNewPairs = 0 THEN "processed"
            ELSE IF processedPairs > 0 THEN "partial"
            ELSE "unprocessed"

\* The pairs of the two conversations the conversation list shows.
StatusPairIds == PairIds \cup {"c2_u1_a1"}

ConversationIds == {"c1", "c2"}

\* The stores updateQAPairState calls can have built over these pairs.
StatusStores ==
    UNION { [P -> QAPairStates] : P \in SUBSET StatusPairIds }

StoreOf(stateOf) ==
    [qaPairs |-> [p \in DOMAIN stateOf |->
                     Metadata(p, stateOf[p], ConversationOf(p), PromptOf(p),
                              ResponseOf(p), Now)],
     lastUpdated |-> Now]

StatusInit ==
    /\ lifecycle = "ready"
    /\ \E stateOf \in StatusStores : metadataStore = StoreOf(stateOf)
    /\ metadataFile = NoFile
    /\ calls = [i \in Slots |-> IdleCall]
    /\ issued = NoneIssued
    /\ updates = 0
    /\ history = "none"

\* The conversation list asks for a conversation's status, with the number of
\* its assistant messages or without.
GetConversationProcessingStatus ==
    /\ lifecycle = "ready"
    /\ \E c \in ConversationIds, given \in BOOLEAN, total \in 0..MaxTotal :
          /\ ~given => total = 0
          /\ lastStatus' =
                [valid |-> TRUE, conversationId |-> c, given |-> given,
                 total |-> total,
                 result |-> getConversationProcessingStatus(metadataStore, c,
                                                            given, total)]
    /\ UNCHANGED <<storeVars, extractVars, idVars, lastGet, reader, saveVars, viewVars>>

\* A new plugin instance is constructed on the same vault and runs onload.
ReaderLoad ==
    /\ \E readOk \in BOOLEAN :
          reader' = [loaded |-> TRUE, readOk |-> readOk /\ metadataFile.exists,
                     store |-> loadConversationMetadata(metadataFile, readOk, Now),
                     outcome |-> loadOutcome(metadataFile, readOk)]
    /\ ~reader.loaded
    /\ UNCHANGED <<storeVars, lastGet, extractVars, idVars, lastStatus, saveVars, viewVars>>

(***************************************************************************)
(* SaveNoteModal.saveNote: the note's path and the note's creation         *)
(***************************************************************************)
Digits == <<"0", "1", "2", "3", "4", "5", "6", "7", "8", "9">>

RECURSIVE DecimalString(_)
\* Number.prototype.toString of a natural number, as a template literal
\* renders it.
DecimalString(n) ==
    IF n < 10 THEN <<Digits[n + 1]>>
    ELSE DecimalString(n \div 10) \o <<Digits[(n % 10) + 1]>>

\* String.prototype.lastIndexOf of a character, counted from 1; 0 when the
\* character does not occur (where JavaScript gives -1).
LastIndexOf(str, ch) ==
    LET at == {i \in 1..Len(str) : str[i] = ch}
    IN IF at = {} THEN 0 ELSE CHOOSE i \in at : \A j \in at : j <= i

\* The characters of the class [\\/:*?"<>|].
ForbiddenChars == {"\\", "/", ":", "*", "?", "\"", "<", ">", "|"}

RECURSIVE Sanitize_CollapseRuns(_)
\* Mutant of Sanitize: a run of forbidden characters becomes one '-'.
Sanitize_CollapseRuns(title) ==
    IF title = <<>> THEN <<>>
    ELSE IF title[1] \notin ForbiddenChars
         THEN <<title[1]>> \o Sanitize_CollapseRuns(Tail(title))
    ELSE IF Len(title) > 1 /\ title[2] \in ForbiddenChars
         THEN Sanitize_CollapseRuns(Tail(title))
    ELSE <<"-">> \o Sanitize_CollapseRuns(Tail(title))

\* title.replace(/[\\/:*?"<>|]/g, '-')
Sanitize(title) ==
    [i \in 1..Len(title) |->
        IF title[i] \in ForbiddenChars THEN "-" ELSE title[i]]

\* Mutant of FolderPath: the folder is used as typed.
FolderPath_NoTrim(folder) == folder

\* const folderPath = folder.trim()
FolderPath(folder) == Trim(folder)

\* Mutant of NeedsFolder: the folder is created whether it exists or not.
NeedsFolder_NoLookup(paths, folderPath) == folderPath # <<>>

\* folderPath && !this.app.vault.getAbstractFileByPath(folderPath)
NeedsFolder(paths, folderPath) == folderPath # <<>> /\ folderPath \notin paths

Md == <<".", "m", "d">>

\* folderPath ? `${folderPath}/${safeTitle}.md` : `${safeTitle}.md`
BasePath(folderPath, safeTitle) ==
    IF folderPath # <<>> THEN folderPath \o <<"/">> \o safeTitle \o Md
    ELSE safeTitle \o Md

\* dir, name and ext of a path: up to and including the last '/', from there
\* to the last '.', and from the last '.' on.
SplitPath(path) ==
    LET lastSlashIndex == LastIndexOf(path, "/")
        nameWithExt == SubSeq(path, lastSlashIndex + 1, Len(path))
        lastDotIndex == LastIndexOf(nameWithExt, ".")
    IN [dir |-> SubSeq(path, 1, lastSlashIndex),
        name |-> IF lastDotIndex >= 1
                 THEN SubSeq(nameWithExt, 1, lastDotIndex - 1)
                 ELSE nameWithExt,
        ext |-> IF lastDotIndex >= 1
                THEN SubSeq(nameWithExt, lastDotIndex, Len(nameWithExt))
                ELSE <<>>]

\* Mutant of NextCandidate: the counter is added to the path tried last.
NextCandidate_FromPrevious(basePath, finalPath, counter) ==
    LET parts == SplitPath(finalPath)
    IN parts.dir \o parts.name \o <<" ", "(">> \o DecimalString(counter) \o <<")">>
          \o parts.ext

\* finalPath = `${dir}${name} (${counter})${ext}`, the three cut from basePath
NextCandidate(basePath, finalPath, counter) ==
    LET parts == SplitPath(basePath)
    IN parts.dir \o parts.name \o <<" ", "(">> \o DecimalString(counter) \o <<")">>
          \o parts.ext

\* const fallbackPath = `${dir}${name}-${timestampSuffix}${ext}`
FallbackPath(basePath, now) ==
    LET parts == SplitPath(basePath)
    IN parts.dir \o parts.name \o <<"-">> \o DecimalString(now) \o parts.ext

maxRetries == 100

\* Mutant of ExceedsMaxRetries: the loop has no bound.
ExceedsMaxRetries_Never(counter) == FALSE

\* if (counter > maxRetries) throw ...
ExceedsMaxRetries(counter) == counter > maxRetries

\* The titles and folders the user types, each with the text it stands for
\* in a path.
TitleChoices ==
    { [title |-> <<"n">>, safe |-> <<"n">>],
      [title |-> <<>>, safe |-> <<>>],
      [title |-> <<"n", ".", "x">>, safe |-> <<"n", ".", "x">>],
      [title |-> <<"\\", "/", ":", "*", "?", "\"", "<", ">", "|", "x">>,
       safe |-> <<"-", "-", "-", "-", "-", "-", "-", "-", "-", "x">>] }

FolderChoices ==
    { [folder |-> <<>>, trimmed |-> <<>>],
      [folder |-> <<" ">>, trimmed |-> <<>>],
      [folder |-> <<"f">>, trimmed |-> <<"f">>],
      [folder |-> <<" ", "d", "/", "f", " ">>, trimmed |-> <<"d", "/", "f">>] }

\* The k-th name of the series name.md, name (1).md, name (2).md, ...
NumberedPath(fc, tc, k) ==
    (IF fc.trimmed = <<>> THEN <<>> ELSE fc.trimmed \o <<"/">>)
       \o tc.safe
       \o (IF k = 0 THEN <<>> ELSE <<" ", "(">> \o DecimalString(k) \o <<")">>)
       \o Md

\* Which names of the series the vault holds already: the first n, or some
\* with gaps.
OccupiedChoices ==
    { 0..(n - 1) : n \in {0, 1, 2, 3, maxRetries - 1, maxRetries, maxRetries + 1} }
       \cup { {1}, {0, 2}, {0, 1, 3} }

NoSave == <<>>

\* The modals that are open: save[m] is modal m's saveNote call.
Modals == DOMAIN save

SaveArgs(title, folder, pairId) ==
    [pc |-> "idle", title |-> title, folder |-> folder, pairId |-> pairId,
     saveInProgress |-> FALSE, folderPath |-> <<>>, safeTitle |-> <<>>,
     basePath |-> <<>>, finalPath |-> <<>>, counter |-> 1,
     fallbackPath |-> <<>>, createdFilePath |-> <<>>, fileCreated |-> FALSE,
     error |-> "none", metadataError |-> FALSE, slot |-> 0,
     stateBefore |-> "none",
     \* history: the saveNote calls that ran the body, those thrown out at
     \* once, the notes created, and whether a create failed on a free path
     begun |-> 0, blocked |-> 0, notes |-> 0, vaultFault |-> FALSE]

\* The plugin is loaded, on a vault without the metadata document or with a
\* document of the current shape.
SaveStoreInit ==
    /\ lifecycle = "ready"
    /\ metadataFile \in {f \in InitialFiles : ~f.exists \/ f.hasQaPairs}
    /\ metadataStore = loadConversationMetadata(metadataFile, TRUE, Now)
    /\ calls = [i \in Slots |-> IdleCall]
    /\ issued = NoneIssued
    /\ updates = 0
    /\ history = "none"

\* The vault that holds the names of occupied of the series, and the folder.
VaultOf(fc, tc, occupied, folderThere) ==
    [p \in {NumberedPath(fc, tc, k) : k \in occupied}
              \cup (IF folderThere THEN {fc.trimmed} ELSE {})
        |-> IF p = fc.trimmed THEN "folder" ELSE "old"]

\* One modal is open on a pair, or on a message without pair id; the vault
\* holds some notes of the series.
SaveInit ==
    /\ SaveStoreInit
    /\ \E tc \in TitleChoices, fc \in FolderChoices, occupied \in OccupiedChoices,
          folderThere \in BOOLEAN, pairId \in {"c1_u1_a1", ""} :
          /\ folderThere => fc.trimmed # <<>>
          /\ (fc.trimmed # <<>> /\ occupied # {}) => folderThere
          /\ vault = VaultOf(fc, tc, occupied, folderThere)
          /\ save = <<SaveArgs(tc.title, fc.folder, pairId)>>

\* The pairs of the modals of the race; the third is opened from a message
\* without pair id.
RacePairIds == <<"c1_u1_a1", "c1_u2_a2", "">>

RaceInit ==
    /\ SaveStoreInit
    /\ \E tc \in {t \in TitleChoices : t.safe = <<"n">>},
          fc \in {f \in FolderChoices : Len(f.folder) <= 1},
          occupied \in {{}, {0}}, folderThere \in BOOLEAN :
          /\ folderThere => fc.trimmed # <<>>
          /\ (fc.trimmed # <<>> /\ occupied # {}) => folderThere
          /\ vault = VaultOf(fc, tc, occupied, folderThere)
          /\ save = [m \in 1..3 |-> SaveArgs(tc.title, fc.folder, RacePairIds[m])]

\* No other modal's saveNote is inside its while loop: the loop has no await,
\* and no handler runs before it is left.
Quiet(m) == \A o \in Modals \ {m} : save[o].pc # "loop"

\* saveNote from the sanitising of the title to the while loop's first test.
\* No await separates this from the loop, nor the loop's iterations from one
\* another: no other handler runs until the loop is left.
Allocated(sv) ==
    LET safeTitle == Sanitize(sv.title)
        basePath == BasePath(sv.folderPath, safeTitle)
    IN [sv EXCEPT !.pc = "loop", !.safeTitle = safeTitle,
                  !.basePath = basePath, !.finalPath = basePath,
                  !.counter = 1]

\* Mutant of MayBegin: saveNote does not look at the flag.
MayBegin_Always(sv) == TRUE

\* if (this.saveInProgress) throw new Error('Save operation already in progress')
MayBegin(sv) == ~sv.saveInProgress

\* saveNote up to its first await, or to the while loop: the flag is set, the
\* locals are fresh, the folder is looked up.
Begun(sv, store, paths) ==
    LET fresh == [sv EXCEPT !.saveInProgress = TRUE,
                            !.folderPath = FolderPath(sv.folder),
                            !.stateBefore = getQAPairState(store, sv.pairId),
                            !.fallbackPath = <<>>, !.createdFilePath = <<>>,
                            !.fileCreated = FALSE, !.error = "none",
                            !.metadataError = FALSE, !.slot = 0,
                            !.begun = sv.begun + 1]
    IN IF NeedsFolder(paths, fresh.folderPath)
       THEN [fresh EXCEPT !.pc = "createFolder"]
       ELSE Allocated(fresh)

\* The modal's save button is activated for the first time.
SaveNoteBegin(m) ==
    /\ save[m].pc = "idle"
    /\ Quiet(m)
    /\ MayBegin(save[m])
    /\ save' = [save EXCEPT ![m] = Begun(save[m], metadataStore, DOMAIN vault)]
    /\ UNCHANGED <<vault, storeVars, extractVars, idVars, observerVars>>

\* saveNote is called again, by a second activation of the button or after
\* the call before has settled (the button is enabled again after an error; a
\* saved pair's Save Again opens the modal anew): the call is thrown out while
\* a save is in progress and runs otherwise.
SaveNoteAgain(m) ==
    /\ save[m].pc # "idle"
    /\ Quiet(m)
    /\ save[m].begun + save[m].blocked < MaxSaveCalls
    /\ save' = [save EXCEPT ![m] =
                   IF MayBegin(save[m])
                   THEN Begun(save[m], metadataStore, DOMAIN vault)
                   ELSE [save[m] EXCEPT !.blocked = save[m].blocked + 1]]
    /\ UNCHANGED <<vault, storeVars, extractVars, idVars, observerVars>>

\* await this.app.vault.createFolder(folderPath) returns or throws.
SaveNoteCreateFolder(m) ==
    /\ save[m].pc = "createFolder"
    /\ Quiet(m)
    /\ \E ok \in BOOLEAN :
          IF ok
          THEN /\ save[m].folderPath \notin DOMAIN vault
               /\ vault' = [p \in DOMAIN vault \cup {save[m].folderPath} |->
                               IF p = save[m].folderPath THEN "folder"
                               ELSE vault[p]]
               /\ save' = [save EXCEPT ![m] = Allocated(save[m])]
          ELSE /\ save' = [save EXCEPT ![m] =
                             [save[m] EXCEPT !.pc = "rejected",
                                             !.error = "createFolder",
                                             !.saveInProgress = FALSE]]
               /\ UNCHANGED vault
    /\ UNCHANGED <<storeVars, extractVars, idVars, observerVars>>

\* The while loop's test and, when the vault has an entry at finalPath, its
\* body: the next candidate, the counter, the bound.
SaveNoteLoop(m) ==
    /\ save[m].pc = "loop"
    /\ save' = [save EXCEPT ![m] =
          IF save[m].finalPath \notin DOMAIN vault
          THEN [save[m] EXCEPT !.pc = "create"]
          ELSE LET next == NextCandidate(save[m].basePath, save[m].finalPath,
                                         save[m].counter)
                   tried == [save[m] EXCEPT !.finalPath = next,
                                            !.counter = save[m].counter + 1]
               IN IF ExceedsMaxRetries(tried.counter)
                  THEN [tried EXCEPT !.pc = "rejected",
                                     !.error = "TooManyDuplicates",
                                     !.saveInProgress = FALSE]
                  ELSE tried]
    /\ UNCHANGED <<vault, storeVars, extractVars, idVars, observerVars>>

\* The text of the k-th note the modals create.
NoteContents == <<"note", "note 2", "note 3", "note 4", "note 5", "note 6">>

NotesIn(v) == {p \in DOMAIN v : v[p] \notin {"old", "folder"}}

\* Mutant of CanCreate: the vault writes over the entry it has at the path.
CanCreate_Overwrites(paths, path) == TRUE

\* vault.create throws when the vault has an entry at the path.
CanCreate(paths, path) == path \notin paths

\* Mutant of FallbackFailure: the error is thrown past the finally.
FallbackFailure_FlagKept(sv) ==
    [sv EXCEPT !.pc = "rejected", !.error = "create"]

\* Mutant of FallbackFailure: the second create's error is swallowed.
FallbackFailure_Swallowed(sv) ==
    [sv EXCEPT !.pc = "resolved", !.saveInProgress = FALSE]

\* catch (fallbackError) { throw error; }, and finally
FallbackFailure(sv) ==
    [sv EXCEPT !.pc = "rejected", !.error = "create", !.saveInProgress = FALSE]

\* The note exists at path: saveNote goes on to record the pair as SAVED, up
\* to the await in updateQAPairState, or, without a pair id, returns.
NoteCreated(m, path) ==
    /\ vault' = [p \in DOMAIN vault \cup {path} |->
                    IF p = path
                    THEN NoteContents[Cardinality(NotesIn(vault)) + 1]
                    ELSE vault[p]]
    /\ LET made == [save[m] EXCEPT !.createdFilePath = path,
                                   !.fileCreated = TRUE,
                                   !.notes = save[m].notes + 1]
       IN IF save[m].pairId # ""
          THEN /\ UpdateQAPairState(save[m].pairId, "saved")
               /\ UNCHANGED viewVars
               /\ save' = [save EXCEPT ![m] =
                     [made EXCEPT !.pc = "update",
                                  !.slot = CHOOSE i \in Slots :
                                      /\ calls[i].pc = "idle"
                                      /\ \A j \in Slots :
                                            j < i => calls[j].pc # "idle"]]
          ELSE /\ save' = [save EXCEPT ![m] =
                     [made EXCEPT !.pc = "resolved", !.saveInProgress = FALSE]]
               /\ UNCHANGED <<storeVars, extractVars, idVars, observerVars>>

\* Date.now() where saveNote builds the fallback path: two saves may read the
\* clock within one millisecond or not.
Times == {Now, Now + 1}

\* await this.app.vault.create(finalPath, content) returns or throws.
SaveNoteCreate(m) ==
    /\ save[m].pc = "create"
    /\ Quiet(m)
    /\ \E ok \in BOOLEAN :
          IF ok
          THEN /\ CanCreate(DOMAIN vault, save[m].finalPath)
               /\ NoteCreated(m, save[m].finalPath)
          ELSE /\ \E now \in Times :
                     save' = [save EXCEPT ![m] =
                        [save[m] EXCEPT
                            !.pc = "fallbackCreate",
                            !.fallbackPath = FallbackPath(save[m].basePath, now),
                            !.vaultFault = save[m].vaultFault
                                \/ save[m].finalPath \notin DOMAIN vault]]
               /\ UNCHANGED <<vault, storeVars, extractVars, idVars, observerVars>>

\* await this.app.vault.create(fallbackPath, content) returns or throws; the
\* error thrown on is the first create's.
SaveNoteFallbackCreate(m) ==
    /\ save[m].pc = "fallbackCreate"
    /\ Quiet(m)
    /\ \E ok \in BOOLEAN :
          IF ok
          THEN /\ CanCreate(DOMAIN vault, save[m].fallbackPath)
               /\ NoteCreated(m, save[m].fallbackPath)
          ELSE /\ save' = [save EXCEPT ![m] =
                     FallbackFailure(
                        [save[m] EXCEPT
                            !.vaultFault = save[m].vaultFault
                                \/ save[m].fallbackPath \notin DOMAIN vault])]
               /\ UNCHANGED <<vault, storeVars, extractVars, idVars, observerVars>>

\* await this.plugin.updateQAPairState(...) returns or throws; what it throws
\* is logged and saveNote returns.
SaveNoteUpdateSettled(m) ==
    /\ save[m].pc = "update"
    /\ Quiet(m)
    /\ Settled(save[m].slot)
    /\ save' = [save EXCEPT ![m] =
          [save[m] EXCEPT !.pc = "resolved", !.saveInProgress = FALSE,
                          !.metadataError = (calls[save[m].slot].pc = "rejected")]]
    /\ calls' = [calls EXCEPT ![save[m].slot] = IdleCall]
    /\ UNCHANGED <<lifecycle, metadataStore, metadataFile, issued, updates, history>>
    /\ UNCHANGED <<vault, extractVars, idVars, observerVars>>

SaveBegin == \E m \in Modals : SaveNoteBegin(m)
SaveAgain == \E m \in Modals : SaveNoteAgain(m)
SaveFolder == \E m \in Modals : SaveNoteCreateFolder(m)
SaveLoop == \E m \in Modals : SaveNoteLoop(m)
SaveNote == \E m \in Modals : SaveNoteCreate(m)
SaveNoteFallback == \E m \in Modals : SaveNoteFallbackCreate(m)
SaveUpdated == \E m \in Modals : SaveNoteUpdateSettled(m)

SaveNext ==
    \/ SaveBegin
    \/ SaveFolder
    \/ SaveLoop
    \/ SaveNote
    \/ SaveNoteFallback
    \/ SaveUpdated
    \/ Read \/ Write \/ Create \/ Fallback

(***************************************************************************)
(* ChatGPTImportModal: loading an export and moving through it             *)
(***************************************************************************)
\* The files the user may select: text that is no JSON, JSON that is no
\* array, an array with a conversation that has no mapping, and arrays of
\* none to three conversations.
ExportFile(json, isArray, wellFormed, conversations) ==
    [json |-> json, isArray |-> isArray, wellFormed |-> wellFormed,
     conversations |-> conversations]

ExportChoices ==
    { ExportFile(FALSE, FALSE, FALSE, <<>>),
      ExportFile(TRUE, FALSE, FALSE, <<>>),
      ExportFile(TRUE, TRUE, FALSE, <<"c1", "c2">>),
      ExportFile(TRUE, TRUE, TRUE, <<>>),
      ExportFile(TRUE, TRUE, TRUE, <<"c1">>),
      ExportFile(TRUE, TRUE, TRUE, <<"c1", "c2">>),
      ExportFile(TRUE, TRUE, TRUE, <<"c1", "c2", "c3">>) }

InvalidExportFormat == "Invalid ChatGPT export format"

\* Mutant of parseChatGPTData: text that is no JSON parses as an empty array.
parseChatGPTData_EmptyOnError(file) ==
    IF file.json THEN [threw |-> FALSE, message |-> "", data |-> file]
    ELSE [threw |-> FALSE, message |-> "",
          data |-> ExportFile(TRUE, TRUE, TRUE, <<>>)]

\* JSON.parse in a try whose catch throws the error of its own.
parseChatGPTData(file) ==
    IF file.json THEN [threw |-> FALSE, message |-> "", data |-> file]
    ELSE [threw |-> TRUE, message |-> InvalidExportFormat, data |-> file]

\* conversations.map(conv => ...): one thread for each conversation, in the
\* export's order; a TypeError if the data is no array or a conversation has
\* no mapping.
ExtractAll(data) ==
    IF data.isArray /\ data.wellFormed
    THEN [threw |-> FALSE, message |-> "",
          conversations |-> [k \in 1..Len(data.conversations) |->
                                [id |-> data.conversations[k]]]]
    ELSE [threw |-> TRUE, message |-> "TypeError", conversations |-> <<>>]

\* What displayConversations draws: the table of contents, one conversation
\* with its buttons, or nothing (displaySingleConversation returns early).
Drawn(m) ==
    IF m.viewMode = "toc" THEN "toc"
    ELSE IF Len(m.conversations) = 0 THEN "nothing"
    ELSE IF m.currentConversationIndex >= Len(m.conversations) THEN "nothing"
    ELSE "conversation"

\* The modal as constructed and opened: the conversations section is hidden.
OpenedModal ==
    [conversations |-> <<>>, currentConversationIndex |-> 0, viewMode |-> "toc",
     shown |-> FALSE, notice |-> "none",
     \* history: the file of the latest load, and the step taken last
     file |-> ExportFile(FALSE, FALSE, FALSE, <<>>), last |-> "open"]

ModalInit == modal = OpenedModal

\* reader.onload for the selected file.
LoadExport ==
    \E file \in ExportChoices :
       LET parsed == parseChatGPTData(file)
           extracted == ExtractAll(parsed.data)
       IN /\ modal' =
                IF parsed.threw
                THEN [modal EXCEPT
                         !.notice = "Error loading ChatGPT data: " \o parsed.message,
                         !.file = file, !.last = "load"]
                ELSE IF extracted.threw
                THEN [modal EXCEPT
                         !.notice = "Error loading ChatGPT data: " \o extracted.message,
                         !.file = file, !.last = "load"]
                ELSE [modal EXCEPT
                         !.conversations = extracted.conversations,
                         !.shown = TRUE,
                         !.notice = "Loaded conversations",
                         !.file = file, !.last = "load"]
          /\ UNCHANGED <<extractVars, idVars, storeVars, saveVars, lastGet,
                         reader, lastStatus, view>>

\* tocItem.onclick, for an item of the table of contents as drawn.
TocItemClick ==
    /\ modal.shown /\ Drawn(modal) = "toc"
    /\ \E originalIndex \in 0..(Len(modal.conversations) - 1) :
          modal' = [modal EXCEPT !.currentConversationIndex = originalIndex,
                                 !.viewMode = "conversation",
                                 !.last = "open"]
    /\ UNCHANGED <<extractVars, idVars, storeVars, saveVars, lastGet, reader,
                   lastStatus, view>>

\* prevButton.onclick and nextButton.onclick
PrevClick ==
    /\ modal.shown /\ Drawn(modal) = "conversation"
    /\ modal' = [modal EXCEPT
                    !.currentConversationIndex =
                        IF modal.currentConversationIndex > 0
                        THEN modal.currentConversationIndex - 1
                        ELSE modal.currentConversationIndex,
                    !.last = "prev"]
    /\ UNCHANGED <<extractVars, idVars, storeVars, saveVars, lastGet, reader,
                   lastStatus, view>>

NextClick ==
    /\ modal.shown /\ Drawn(modal) = "conversation"
    /\ modal' = [modal EXCEPT
                    !.currentConversationIndex =
                        IF modal.currentConversationIndex
                              < Len(modal.conversations) - 1
                        THEN modal.currentConversationIndex + 1
                        ELSE modal.currentConversationIndex,
                    !.last = "next"]
    /\ UNCHANGED <<extractVars, idVars, storeVars, saveVars, lastGet, reader,
                   lastStatus, view>>

\* backButton.onclick
BackClick ==
    /\ modal.shown /\ Drawn(modal) = "conversation"
    /\ modal' = [modal EXCEPT !.viewMode = "toc", !.last = "back"]
    /\ UNCHANGED <<extractVars, idVars, storeVars, saveVars, lastGet, reader,
                   lastStatus, view>>

ImportNext == LoadExport \/ TocItemClick \/ PrevClick \/ NextClick \/ BackClick

(***************************************************************************)
(* The conversation view: the action buttons of the pairs                  *)
(***************************************************************************)
\* The pairs whose buttons the user activates.
ViewPairs == {"c1_u1_a1"}

\* What displaySingleConversation reads for each pair when it draws.
RenderedNow(store) == [p \in PairIds |-> getQAPairState(store, p)]

NoHandlers == [i \in Slots |-> "none"]

\* The view of a conversation with both pairs drawn, no save modal above it.
ViewInit ==
    /\ SaveStoreInit
    /\ vault = <<>>
    /\ save = <<>>
    /\ view = [rendered |-> RenderedNow(metadataStore), handler |-> NoHandlers,
               covered |-> FALSE, notice |-> "none",
               \* history: an operation of a handler failed and the handler
               \* showed no notice of it
               silent |-> FALSE]

\* The slot updateQAPairState takes.
LowestIdle ==
    CHOOSE i \in Slots :
       calls[i].pc = "idle" /\ \A j \in Slots : j < i => calls[j].pc # "idle"

\* A click is handled only when no continuation of an await is due, and on
\* the view only while no save modal lies above it.
ClickPossible ==
    /\ \A i \in Slots : ~Settled(i)
    /\ \A m \in Modals : save[m].pc \notin {"resolved", "rejected", "loop"}

\* The state a button drawn for a pair in state rendered asks for.
ButtonsOf(rendered) ==
    CASE rendered = "new" -> {[name |-> "ignore", state |-> "ignored"]}
      [] rendered = "saved" -> {[name |-> "reset", state |-> "new"]}
      [] OTHER -> {[name |-> "unignore", state |-> "new"]}

\* The notice of ignoreButton, resetButton and unignoreButton.onclick after
\* their await: the handlers have no catch.
NoticeAfter(name, pc) ==
    IF pc # "resolved" THEN "none"
    ELSE IF name = "ignore" THEN "Q&A pair marked as ignored."
    ELSE "Q&A pair reset to new status."

\* ignoreButton.onclick, resetButton.onclick, unignoreButton.onclick up to
\* their await, the confirm dialog answered with yes.
PairButtonClick ==
    /\ ClickPossible
    /\ ~view.covered
    /\ \E p \in ViewPairs :
          \E b \in ButtonsOf(view.rendered[p]) :
             /\ UpdateQAPairState(p, b.state)
             /\ view' = [view EXCEPT !.handler[LowestIdle] = b.name]
    /\ UNCHANGED <<saveVars, modal>>

\* The handler after its await: the view is drawn again and the notice
\* shown, or the rejection leaves the handler.
PairButtonSettled ==
    \E i \in Slots :
       /\ Settled(i)
       /\ view.handler[i] # "none"
       /\ calls' = [calls EXCEPT ![i] = IdleCall]
       /\ LET notice == NoticeAfter(view.handler[i], calls[i].pc)
          IN view' = [view EXCEPT
                !.handler[i] = "none",
                !.rendered = IF calls[i].pc = "resolved"
                             THEN RenderedNow(metadataStore)
                             ELSE view.rendered,
                !.notice = notice,
                !.silent = view.silent
                              \/ (calls[i].pc = "rejected" /\ notice = "none")]
       /\ UNCHANGED <<lifecycle, metadataStore, metadataFile, issued, updates, history>>
       /\ UNCHANGED <<extractVars, idVars, lastGet, reader, lastStatus, saveVars, modal>>

\* saveButton.onclick and resaveButton.onclick of a pair: a SaveNoteModal is
\* constructed and opened above the view.
OpenSaveModal ==
    /\ ClickPossible
    /\ ~view.covered
    /\ save = <<>>
    /\ \E p \in ViewPairs : save' = <<SaveArgs(<<"n">>, <<>>, p)>>
    /\ view' = [view EXCEPT !.covered = TRUE]
    /\ UNCHANGED <<vault, storeVars, extractVars, idVars, lastGet, reader,
                   lastStatus, modal>>

\* The save modal is closed by the user while its saveNote runs: onClose
\* empties the modal, the call goes on.
DismissSaveModal ==
    /\ view.covered
    /\ \A m \in Modals : save[m].pc \notin {"idle", "resolved", "rejected", "loop"}
    /\ view' = [view EXCEPT !.covered = FALSE]
    /\ UNCHANGED <<saveVars, storeVars, extractVars, idVars, lastGet, reader,
                   lastStatus, modal>>

\* The notice of the modal's saveButton.onclick after its await.
SaveNotice(sv) ==
    IF sv.pc = "resolved" THEN "Note saved successfully!"
    ELSE "Error saving note: " \o sv.error

\* saveButton.onclick of the modal after await this.saveNote(...): the
\* notice, and on success the view drawn again and the modal closed. A modal
\* whose save was rejected is closed by the user.
SaveModalSettled ==
    /\ save # <<>>
    /\ save[1].pc \in {"resolved", "rejected"}
    /\ view' = [view EXCEPT
          !.covered = FALSE,
          !.rendered = IF save[1].pc = "resolved"
                       THEN RenderedNow(metadataStore) ELSE view.rendered,
          !.notice = SaveNotice(save[1]),
          !.silent = view.silent
                        \/ (save[1].metadataError /\ save[1].pc = "resolved")]
    /\ save' = <<>>
    /\ UNCHANGED <<vault, storeVars, extractVars, idVars, lastGet, reader,
                   lastStatus, modal>>

ViewNext ==
    \/ PairButtonClick
    \/ PairButtonSettled
    \/ OpenSaveModal
    \/ DismissSaveModal
    \/ SaveModalSettled
    \/ SaveBegin
    \/ SaveLoop
    \/ SaveNote
    \/ SaveNoteFallback
    \/ SaveUpdated
    \/ Read \/ Write \/ Create \/ Fallback

(***************************************************************************)
(* Specifications                                                          *)
(***************************************************************************)
ExtractIdle ==
    /\ mapping = <<>> /\ current = 0 /\ messages = <<>> /\ walked = <<>>
    /\ epc = "done"

IdIdle == idArgs = <<>> /\ idOut = <<>>

StoreIdle ==
    /\ lifecycle = "constructed"
    /\ metadataStore = EmptyStore(0)
    /\ metadataFile = NoFile
    /\ calls = <<>>
    /\ issued = <<>>
    /\ updates = 0
    /\ history = "none"

ObserversIdle ==
    /\ lastGet = NoGet /\ reader = NoReader /\ lastStatus = NoStatus
    /\ modal = NoModal /\ view = NoView

SaveIdle == vault = <<>> /\ save = <<>>

\* extractConversations on every export of the bounded families.
InitExtract == ExtractInit /\ IdIdle /\ StoreIdle /\ ObserversIdle /\ SaveIdle

SpecExtract == InitExtract /\ [][ExtractNext]_vars

\* generateQAPairId on every two triples of bounded ids.
InitPairId == IdInit /\ ExtractIdle /\ StoreIdle /\ ObserversIdle /\ SaveIdle

SpecPairId == InitPairId /\ [][IdNext]_vars

\* The plugin instance: onload, then updateQAPairState calls whose
\* persistence steps interleave at the awaits.
InitStore == StoreInit /\ ExtractIdle /\ IdIdle /\ ObserversIdle /\ SaveIdle

SpecStore == InitStore /\ [][StoreNext]_vars

\* The same, with the view reading pair states.
GetNext ==
    \/ OnLoad \/ Update \/ Read \/ Write \/ Create \/ Fallback \/ Return
    \/ GetQAPairState

SpecGet == InitStore /\ [][GetNext]_vars

\* The same, until the plugin is unloaded and a new instance is constructed
\* on the vault and loaded.
ReloadNext ==
    \/ ~reader.loaded /\ OnLoad
    \/ ~reader.loaded /\ Update
    \/ ~reader.loaded /\ Read
    \/ ~reader.loaded /\ Write
    \/ ~reader.loaded /\ Create
    \/ ~reader.loaded /\ Fallback
    \/ ~reader.loaded /\ Return
    \/ ReaderLoad

SpecReload == InitStore /\ [][ReloadNext]_vars

\* getConversationProcessingStatus on every store over the pairs of two
\* conversations.
InitStatus == StatusInit /\ ExtractIdle /\ IdIdle /\ ObserversIdle /\ SaveIdle

SpecStatus == InitStatus /\ [][GetConversationProcessingStatus]_vars

\* One saveNote call of a modal, on every title, folder and vault of the
\* bounded families.
InitSave == SaveInit /\ ExtractIdle /\ IdIdle /\ ObserversIdle

SpecSave == InitSave /\ [][SaveNext]_vars

\* updateQAPairState calls for one pair with the texts of the families,
\* their persistence steps interleaving at the awaits.
InitRapid == RapidInit /\ ExtractIdle /\ IdIdle /\ ObserversIdle /\ SaveIdle

RapidNext == RapidUpdate \/ Read \/ Write \/ Create \/ Fallback \/ Return

SpecRapid == InitRapid /\ [][RapidNext]_vars

\* The import modal: exports are loaded one after the other and the user
\* moves through the conversations.
InitImport ==
    /\ ModalInit /\ view = NoView
    /\ lastGet = NoGet /\ reader = NoReader /\ lastStatus = NoStatus
    /\ ExtractIdle /\ IdIdle /\ StoreIdle /\ SaveIdle

SpecImport == InitImport /\ [][ImportNext]_vars

\* The conversation view with its pairs' buttons and the save modal opened
\* from it.
InitView ==
    /\ ViewInit /\ modal = NoModal
    /\ lastGet = NoGet /\ reader = NoReader /\ lastStatus = NoStatus
    /\ ExtractIdle /\ IdIdle

SpecView == InitView /\ [][ViewNext]_vars

\* The same, with the modal's save activated again: while the first call is
\* in progress, or once it has settled.
ResaveNext == SaveNext \/ SaveAgain

SpecResave == InitSave /\ [][ResaveNext]_vars

\* Three modals are open on messages of one title and one folder, two of them
\* on pairs; their saveNote calls interleave at the awaits.
InitRace == RaceInit /\ ExtractIdle /\ IdIdle /\ ObserversIdle

SpecRace == InitRace /\ [][SaveNext]_vars

(***************************************************************************)
(* Properties of generateQAPairId                                          *)
(***************************************************************************)
NoSeparator(t) ==
    \A k \in 1..3 : \A j \in 1..Len(t[k]) : t[k][j] # "_"

\* C5: the same triple yields the same id, and two distinct triples whose
\* components hold no '_' yield different ids.
C5_PairIdInjective ==
    idOut # <<>> =>
       /\ idArgs[1] = idArgs[2] => idOut[1] = idOut[2]
       /\ (idArgs[1] # idArgs[2] /\ NoSeparator(idArgs[1]) /\ NoSeparator(idArgs[2]))
             => idOut[1] # idOut[2]

\* Two distinct separator-free triples whose components read the same when
\* written one after the other; the ids differ all the same.
C5_Witness ==
    /\ idOut # <<>>
    /\ idArgs[1] # idArgs[2]
    /\ NoSeparator(idArgs[1]) /\ NoSeparator(idArgs[2])
    /\ idArgs[1][1] \o idArgs[1][2] \o idArgs[1][3]
          = idArgs[2][1] \o idArgs[2][2] \o idArgs[2][3]
    /\ idArgs[1][1] \o idArgs[1][2] \o idArgs[1][3] # <<>>

(***************************************************************************)
(* Properties of the pair metadata store                                   *)
(***************************************************************************)
StoredState(p) ==
    IF p \in DOMAIN metadataStore.qaPairs THEN metadataStore.qaPairs[p].state
    ELSE "new"

\* C6: getQAPairState returns NEW for a pair without an entry and the stored
\* entry's state otherwise, and does not change the store.
C6_GetStateDefaultsToNew ==
    [][lastGet'.valid =>
          /\ metadataStore' = metadataStore
          /\ lastGet'.result = StoredState(lastGet'.pairId)]_vars

\* getQAPairState has returned NEW for a pair without an entry while the
\* store holds another pair that is not NEW.
C6_Witness ==
    /\ lastGet.valid
    /\ lastGet.pairId \notin DOMAIN metadataStore.qaPairs
    /\ lastGet.result = "new"
    /\ \E p \in DOMAIN metadataStore.qaPairs :
          metadataStore.qaPairs[p].state = "ignored"

\* C7: once updateQAPairState(pairId, s) has been called, getQAPairState
\* returns s (the s of the latest call for the pair), whether the document
\* could be written or not.
C7_NoRollback ==
    \A p \in PairIds :
       issued[p] # "none" => getQAPairState(metadataStore, p) = issued[p]

\* A call for SAVED was rejected, no later call touched the pair, and the pair
\* reads SAVED.
C7_Witness ==
    \E i \in Slots :
       /\ calls[i].pc = "rejected"
       /\ calls[i].state = "saved"
       /\ issued[calls[i].pairId] = "saved"
       /\ getQAPairState(metadataStore, calls[i].pairId) = "saved"

\* C8: a call whose document was written by none of its vault operations is
\* rejected; it never resolves.
C8_FailedPersistenceRejects ==
    \A i \in Slots :
       (Settled(i) /\ ~calls[i].persisted) => calls[i].pc = "rejected"

\* A call was rejected after create and the fallback write both failed: the
\* document is still absent.
C8_Witness ==
    \E i \in Slots :
       /\ calls[i].pc = "rejected"
       /\ ~calls[i].persisted
       /\ ~metadataFile.exists

\* C9: no step removes a pair from the in-memory store, and an update to NEW
\* leaves the pair's entry in the store, with state NEW.
C9_StoreOnlyGrows ==
    [][/\ DOMAIN metadataStore.qaPairs \subseteq DOMAIN metadataStore'.qaPairs
       /\ \A i \in Slots :
             (calls[i].pc = "idle" /\ calls'[i].pc = "read"
                 /\ calls'[i].state = "new")
             => /\ calls'[i].pairId \in DOMAIN metadataStore'.qaPairs
                /\ metadataStore'.qaPairs[calls'[i].pairId].state = "new"]_vars

\* A reset is pending for a pair the document records as SAVED; the pair's
\* entry is in the store, with state NEW, beside another pair's.
C9_Witness ==
    \E i \in Slots :
       /\ InFlight(i)
       /\ calls[i].state = "new"
       /\ calls[i].pairId \in DOMAIN metadataFile.qaPairs
       /\ metadataFile.qaPairs[calls[i].pairId].state = "saved"
       /\ calls[i].pairId \in DOMAIN metadataStore.qaPairs
       /\ metadataStore.qaPairs[calls[i].pairId].state = "new"
       /\ Cardinality(DOMAIN metadataStore.qaPairs) = 2

\* Every update so far was issued with none pending and resolved.
SequentialAndSuccessful ==
    /\ history = "clean"
    /\ \A i \in Slots : ~InFlight(i)

SameStates(loaded, store) ==
    /\ DOMAIN loaded.qaPairs = DOMAIN store.qaPairs
    /\ \A p \in DOMAIN store.qaPairs :
          loaded.qaPairs[p].state = store.qaPairs[p].state

\* C10: after sequential, successful updates, loading the document gives the
\* pairs of the writer's store, each with its last-written state.
C10_RoundTrip ==
    SequentialAndSuccessful =>
       /\ SameStates(loadConversationMetadata(metadataFile, TRUE, Now),
                     metadataStore)
       /\ (reader.loaded /\ reader.readOk) =>
             /\ SameStates(reader.store, metadataStore)
             /\ \A p \in PairIds :
                   issued[p] # "none" => reader.store.qaPairs[p].state = issued[p]

\* A new instance has loaded two pairs, written by sequential successful
\* updates, the later of which changed a pair written before.
C10_Witness ==
    /\ SequentialAndSuccessful
    /\ reader.loaded /\ reader.readOk
    /\ updates = MaxUpdates
    /\ \A p \in PairIds : issued[p] # "none"
    /\ \E p \in PairIds : reader.store.qaPairs[p].state = "new"
    /\ \E p \in PairIds : reader.store.qaPairs[p].state = "ignored"

(***************************************************************************)
(* Properties of loadConversationMetadata                                  *)
(***************************************************************************)
\* The new instance has read a document that is no JSON.
ReadCorrupt ==
    /\ reader.loaded /\ reader.readOk
    /\ metadataFile.exists /\ ~metadataFile.json

\* C11: loading a document that is present and read but is no JSON is
\* rejected to the caller of load, unlike loading a missing document, and the
\* store is not reset to empty as if nothing had happened.
C11_CorruptFileIsHardFailure ==
    ReadCorrupt => reader.outcome = "rejected"

\* C12: loading when the document is missing raises no error and leaves an
\* empty store: every pair reads NEW.
C12_MissingFileLoadsEmpty ==
    (reader.loaded /\ ~metadataFile.exists) =>
       /\ reader.outcome = "resolved"
       /\ reader.store.qaPairs = EmptyPairs
       /\ \A p \in PairIds : getQAPairState(reader.store, p) = "new"

\* A new instance has loaded while the document is missing, although the
\* first instance holds a pair it failed to write.
C12_Witness ==
    /\ reader.loaded
    /\ ~metadataFile.exists
    /\ reader.outcome = "resolved"
    /\ \E p \in DOMAIN metadataStore.qaPairs :
          metadataStore.qaPairs[p].state = "saved"

\* C13: loading a JSON document without qaPairs, be it the legacy document
\* with a conversations key or any other, raises no error and gives an empty
\* pairs map.
C13_OtherShapesLoadEmpty ==
    (reader.loaded /\ metadataFile.exists /\ metadataFile.json
        /\ ~metadataFile.hasQaPairs) =>
       /\ reader.outcome = "resolved"
       /\ reader.store.qaPairs = EmptyPairs

\* A new instance has read and loaded a document of neither shape.
C13_Witness ==
    /\ reader.loaded /\ reader.readOk
    /\ metadataFile.exists /\ metadataFile.json
    /\ ~metadataFile.hasQaPairs /\ ~metadataFile.hasConversations
    /\ reader.store.qaPairs = EmptyPairs

(***************************************************************************)
(* Properties of getConversationProcessingStatus                           *)
(***************************************************************************)
\* The pairs of conversation c the store records, and those of them in a
\* state of S.
Recorded(c) ==
    {p \in StatusPairIds : p \in DOMAIN metadataStore.qaPairs /\ ConversationOf(p) = c}

RecordedIn(c, S) == {p \in Recorded(c) : StoredState(p) \in S}

\* C14: with the total T given, the status is PROCESSED if the recorded NEW
\* pairs plus the T - |recorded| pairs not recorded yet are none, else PARTIAL
\* if a recorded pair is not NEW, else UNPROCESSED.
C14_StatusWithTotal ==
    (lastStatus.valid /\ lastStatus.given) =>
       LET c == lastStatus.conversationId
           processed == Cardinality(RecordedIn(c, {"saved", "ignored"}))
           totalNew == Cardinality(RecordedIn(c, {"new"}))
                          + (lastStatus.total - Cardinality(Recorded(c)))
       IN lastStatus.result =
             IF totalNew = 0 THEN "processed"
             ELSE IF processed > 0 THEN "partial"
             ELSE "unprocessed"

\* The status of a conversation with one pair SAVED and one not recorded was
\* asked with total 2 while the other conversation's pair is NEW: PARTIAL.
C14_Witness ==
    /\ lastStatus.valid /\ lastStatus.given
    /\ lastStatus.conversationId = "c1"
    /\ lastStatus.total = 2
    /\ Cardinality(Recorded("c1")) = 1
    /\ RecordedIn("c1", {"saved"}) # {}
    /\ RecordedIn("c2", {"new"}) # {}
    /\ lastStatus.result = "partial"

\* C15: without a total, the status is UNPROCESSED if the store records no
\* pair of the conversation, else PARTIAL if a recorded pair of it is NEW,
\* else PROCESSED.
C15_StatusWithoutTotal ==
    (lastStatus.valid /\ ~lastStatus.given) =>
       LET c == lastStatus.conversationId
       IN lastStatus.result =
             IF Recorded(c) = {} THEN "unprocessed"
             ELSE IF RecordedIn(c, {"new"}) # {} THEN "partial"
             ELSE "processed"

\* The status of a conversation without recorded pairs was asked without a
\* total while the store records a pair of the other conversation.
C15_Witness ==
    /\ lastStatus.valid /\ ~lastStatus.given
    /\ lastStatus.conversationId = "c2"
    /\ Recorded("c2") = {}
    /\ RecordedIn("c1", {"saved"}) # {}
    /\ lastStatus.result = "unprocessed"

(***************************************************************************)
(* Properties of saveNote's path                                           *)
(***************************************************************************)
TitleChoice == CHOOSE tc \in TitleChoices : tc.title = save[1].title

FolderChoice == CHOOSE fc \in FolderChoices : fc.folder = save[1].folder

\* The k-th name of the series of the call's title and folder.
Series(k) == NumberedPath(FolderChoice, TitleChoice, k)

\* The least k whose name the vault does not hold.
FirstFree ==
    CHOOSE k \in 0..(maxRetries + 2) :
       /\ Series(k) \notin DOMAIN vault
       /\ \A j \in 0..(k - 1) : Series(j) \in DOMAIN vault

\* C16: the path the loop is left with is name.md if the vault has no entry
\* there, else name (k).md for the least k >= 1 without an entry; each path
\* the loop tries is the original path with the counter, never a path tried
\* before with a second counter.
C16_FirstFreeCandidate ==
    /\ save[1].pc = "loop" => save[1].finalPath = Series(save[1].counter - 1)
    /\ save[1].pc = "create" => save[1].finalPath = Series(FirstFree)

\* The loop has settled on name (2).md, in a folder, with name.md, name (1).md
\* and name (3).md in the vault.
C16_Witness ==
    /\ save[1].pc = "create"
    /\ FolderChoice.trimmed # <<>>
    /\ {Series(0), Series(1), Series(3)} \subseteq DOMAIN vault
    /\ save[1].finalPath = Series(2)

\* C17: when the vault has no entry at the first candidate, the path is the
\* sanitized title and '.md', after the trimmed folder and '/' if and only if
\* the trimmed folder is not empty.
C17_PathOfFreeName ==
    (save[1].pc = "create" /\ Series(0) \notin DOMAIN vault) =>
       save[1].finalPath =
          (IF Trim(save[1].folder) # <<>> THEN Trim(save[1].folder) \o <<"/">>
           ELSE <<>>) \o save[1].safeTitle \o <<".", "m", "d">>

\* A save into a folder typed as a blank has settled on the path without
\* folder.
C17_Witness ==
    /\ save[1].pc = "create"
    /\ save[1].folder = <<" ">>
    /\ save[1].title = <<"n">>
    /\ save[1].finalPath = <<"n", ".", "m", "d">>

\* C18: the sanitized title is as long as the title, has '-' wherever the
\* title has one of \ / : * ? " < > | and the title's character elsewhere.
C18_SanitizeOneToOne ==
    (save[1].pc \notin {"idle", "createFolder"} /\ save[1].error # "createFolder") =>
       /\ Len(save[1].safeTitle) = Len(save[1].title)
       /\ \A i \in 1..Len(save[1].title) :
             save[1].safeTitle[i] =
                IF save[1].title[i] \in {"\\", "/", ":", "*", "?", "\"", "<", ">", "|"}
                THEN "-" ELSE save[1].title[i]

\* A title of the nine characters in a row and a letter was sanitized to nine
\* '-' and the letter.
C18_Witness ==
    /\ save[1].pc = "create"
    /\ Len(save[1].title) = 10
    /\ \A i \in 1..9 : save[1].title[i] # "-" /\ save[1].safeTitle[i] = "-"
    /\ save[1].safeTitle[10] = "x"

\* The vault held the path when saveNote was called.
HeldBefore(path) == path \in DOMAIN vault /\ vault[path] = "old"

\* C19: the loop derives at most maxRetries candidates; when name.md and the
\* names up to (maxRetries - 1) were all in the vault the save is rejected with
\* the too-many-duplicates error, and then no note was created, no update of
\* the pair was issued and the pair's state is what it was.
C19_BoundedCollisionLoop ==
    /\ save[1].counter <= maxRetries + 1
    /\ save[1].pc = "loop" => save[1].counter <= maxRetries
    /\ (save[1].pc \notin {"idle", "createFolder", "loop"}
           /\ \A k \in 0..(maxRetries - 1) : HeldBefore(Series(k)))
          => save[1].pc = "rejected" /\ save[1].error = "TooManyDuplicates"
    /\ save[1].error = "TooManyDuplicates" =>
          /\ save[1].pc = "rejected"
          /\ \A p \in DOMAIN vault : vault[p] # "note"
          /\ updates = 0
          /\ \A i \in Slots : calls[i].pc = "idle"
          /\ getQAPairState(metadataStore, save[1].pairId) = save[1].stateBefore

\* The save of a pair was rejected with the too-many-duplicates error on a
\* vault that holds name.md and every name up to (maxRetries).
C19_Witness ==
    /\ save[1].error = "TooManyDuplicates"
    /\ save[1].pairId # ""
    /\ \A k \in 0..maxRetries : Series(k) \in DOMAIN vault

\* C20: saveNote calls createFolder if and only if the trimmed folder is not
\* empty and the vault has no entry at it, and no other step of the save adds
\* a folder.
C20_FolderCreatedWhenAbsent ==
    [][/\ (save[1].pc = "idle" /\ save'[1].pc # "idle") =>
             (save'[1].pc = "createFolder"
                 <=> (Trim(save[1].folder) # <<>>
                         /\ Trim(save[1].folder) \notin DOMAIN vault))
       /\ \A p \in DOMAIN vault' \ DOMAIN vault :
             vault'[p] = "folder" => save[1].pc = "createFolder" /\ p = Trim(save[1].folder)
      ]_vars

\* The save awaits createFolder for the folder typed with blanks around it,
\* which the vault lacks.
C20_Witness ==
    /\ save[1].pc = "createFolder"
    /\ save[1].folder # save[1].folderPath
    /\ save[1].folderPath = Trim(save[1].folder)
    /\ save[1].folderPath \notin DOMAIN vault

(***************************************************************************)
(* Properties of concurrent updateQAPairState calls                        *)
(***************************************************************************)
\* The calls whose saveConversationMetadata is at one of its awaits.
Persisting == {i \in Slots : InFlight(i)}

\* C26: in every reachable state at most one persistence of the pair store
\* (the read, then the write or create, of the metadata document) is in
\* flight: the persistence steps of two updating user actions never overlap.
C26_OnePersistenceInFlight == Cardinality(Persisting) <= 1

\* C27: once the updateQAPairState calls issued side by side have all
\* resolved, the document holds every pair of the in-memory store, with the
\* store's state, whatever the order in which their writes completed.
C27_NoLostWrites ==
    (\A i \in Slots : calls[i].pc = "resolved") =>
       /\ metadataFile.exists
       /\ SameStates(loadConversationMetadata(metadataFile, TRUE, Now),
                     metadataStore)

(***************************************************************************)
(* Properties of saveNote: what a save does to the vault and to the pair   *)
(***************************************************************************)
\* The note paths a step adds to the vault.
NewNotes == NotesIn(vault') \ DOMAIN vault

\* C21: no step of a save changes or removes an entry the vault has; a
\* saveNote call creates one note, at a path the vault did not have, and
\* only a call that created its note resolves. Saving the same title again
\* adds a second note and leaves the first as it was.
C21_NoOverwrite ==
    [][/\ \A p \in DOMAIN vault : p \in DOMAIN vault' /\ vault'[p] = vault[p]
       /\ Cardinality(NewNotes) <= 1
       /\ \A m \in Modals :
             /\ save'[m].notes \in {save[m].notes, save[m].notes + 1}
             /\ save'[m].notes = save[m].notes + 1 =>
                   /\ ~save[m].fileCreated
                   /\ NewNotes = {save'[m].createdFilePath}
             /\ save'[m].pc = "resolved" => save'[m].fileCreated
       /\ NewNotes # {} => \E m \in Modals : save'[m].notes = save[m].notes + 1]_vars

\* The modal's second saveNote call has resolved: the vault holds the note of
\* the first call and that of the second at two paths, beside the entry it
\* held at the title's own name before.
C21_Witness ==
    /\ save[1].begun = 2
    /\ save[1].pc = "resolved"
    /\ save[1].notes = 2
    /\ \E p, q \in DOMAIN vault :
          /\ p # q
          /\ vault[p] = NoteContents[1]
          /\ vault[q] = NoteContents[2]
          /\ q = save[1].createdFilePath
    /\ HeldBefore(save[1].basePath)

\* The state the view shows for the pair of modal m.
PairState(m) == getQAPairState(metadataStore, save[m].pairId)

\* C22: as long as a save has not created its note the pair's state is what
\* it was when the save began; a save whose note creation failed is rejected,
\* with the pair's state as before the save, and no save resolves without
\* its note.
C22_SavedOnlyAfterNote ==
    \A m \in Modals :
       /\ (save[m].pairId # "" /\ save[m].begun > 0 /\ ~save[m].fileCreated)
             => PairState(m) = save[m].stateBefore
       /\ (save[m].pc = "rejected" /\ save[m].error = "create")
             => ~save[m].fileCreated
       /\ save[m].pc = "resolved" => save[m].fileCreated
       /\ (save[m].pairId # "" /\ PairState(m) = "saved"
              /\ save[m].stateBefore # "saved")
             => /\ save[m].fileCreated
                /\ save[m].createdFilePath \in NotesIn(vault)

\* Both creates of a pair's save threw: the save is rejected, no note was
\* added, and the pair is NEW as before.
C22_Witness ==
    /\ save[1].pc = "rejected"
    /\ save[1].error = "create"
    /\ save[1].pairId = "c1_u1_a1"
    /\ save[1].stateBefore = "new"
    /\ PairState(1) = "new"
    /\ NotesIn(vault) = {}

\* C23: a save whose note was created and whose updateQAPairState was
\* rejected is rejected to its caller, and its note stays in the vault.
C23_MetadataFailureReported ==
    \A m \in Modals :
       save[m].metadataError =>
          /\ save[m].pc = "rejected"
          /\ save[m].createdFilePath \in NotesIn(vault)

(***************************************************************************)
(* Properties of concurrent saveNote calls                                 *)
(***************************************************************************)
\* The modals whose save has created its note.
Creators == {m \in Modals : save[m].fileCreated}

\* C24: however the saves of modals with one title and one folder interleave
\* at their awaits, no two of them create the same path: the notes of the
\* saves that created one are at pairwise distinct paths, each in the vault,
\* and the vault has one note for each of them.
C24_DistinctNotes ==
    /\ \A m, o \in Creators :
          m # o => save[m].createdFilePath # save[o].createdFilePath
    /\ \A m \in Creators : save[m].createdFilePath \in NotesIn(vault)
    /\ Cardinality(NotesIn(vault)) = Cardinality(Creators)

\* Two saves left the collision loop with the same path; both have resolved,
\* one with its note at that path and the other with its note elsewhere.
C24_Witness ==
    \E m, o \in Modals :
       /\ m # o
       /\ save[m].finalPath = save[o].finalPath
       /\ save[m].pc = "resolved" /\ save[o].pc = "resolved"
       /\ save[m].createdFilePath = save[m].finalPath
       /\ save[o].createdFilePath = save[o].fallbackPath
       /\ save[m].createdFilePath # save[o].createdFilePath

\* C25: a create that throws because another save took the path makes the
\* save try another name: a save is rejected for its creates only if the
\* vault threw on a path it did not have, however many saves of the title
\* run side by side.
C25_LoserRetries ==
    \A m \in Modals :
       (save[m].pc = "rejected" /\ save[m].error = "create")
          => \E o \in Modals : save[o].vaultFault

RECURSIVE Chars(_)
Chars(t) ==
    IF t = <<>> THEN <<>>
    ELSE [j \in 1..Head(t).len |-> Head(t).ch] \o Chars(Tail(t))

\* The first n characters of a sequence, or all of it when it has fewer.
FirstChars(seq, n) == SubSeq(seq, 1, IF Len(seq) < n THEN Len(seq) ELSE n)

\* The entry of the in-memory store for the pair updated in quick succession.
RapidEntry == metadataStore.qaPairs[RapidPair]

\* C28: when every updateQAPairState call issued for the pair has completed,
\* whatever the order of their persistence steps, the in-memory state and
\* prompt preview of the pair are those of the call issued last.
C28_LastIssuedWins ==
    (updates > 0 /\ \A i \in Slots : ~InFlight(i)) =>
       /\ RapidPair \in DOMAIN metadataStore.qaPairs
       /\ RapidEntry.state = issued[RapidPair]
       /\ RapidEntry.userPrompt
             = SubstringTo(RapidPrompt(updates, issued[RapidPair]), PreviewLength)

\* Three calls were issued, not one after the other, and all have completed;
\* the write that completed last was not that of the last call, so that the
\* document's preview is not the store's.
C28_Witness ==
    /\ updates = 3
    /\ history = "dirty"
    /\ \A i \in Slots : calls[i].pc \in {"idle", "resolved"}
    /\ metadataFile.exists /\ metadataFile.hasQaPairs
    /\ RapidPair \in DOMAIN metadataFile.qaPairs
    /\ metadataFile.qaPairs[RapidPair].userPrompt # RapidEntry.userPrompt
    /\ RapidEntry.userPrompt
          = SubstringTo(RapidPrompt(3, issued[RapidPair]), PreviewLength)

\* C30: the entry updateQAPairState stores has as prompt preview and as
\* response preview the first 100 characters of the prompt and of the response
\* it was given, and the whole text when that has fewer, whatever the length.
C30_PreviewIsFirstHundred ==
    [][updates' = updates + 1 =>
          LET entry == metadataStore'.qaPairs[RapidPair]
              given == issued'[RapidPair]
          IN /\ Chars(entry.userPrompt)
                   = FirstChars(Chars(RapidPrompt(updates', given)), 100)
             /\ Chars(entry.responsePreview)
                   = FirstChars(Chars(RapidResponse(updates', given)), 100)]_vars

\* The store holds a preview of 100 characters cut from a longer prompt of two
\* runs, beside a response preview of 100 characters cut from a response of
\* more than 200.
C30_Witness ==
    /\ updates = 3
    /\ issued[RapidPair] = "saved"
    /\ Len(Chars(RapidPrompt(3, "saved"))) > 100
    /\ Len(Chars(RapidResponse(3, "saved"))) > 200
    /\ Len(Chars(RapidEntry.userPrompt)) = 100
    /\ Len(RapidEntry.userPrompt) = 2
    /\ Len(Chars(RapidEntry.responsePreview)) = 100

(***************************************************************************)
(* Properties of saveNote: the bound of the collision loop                 *)
(***************************************************************************)
\* C37: a save is rejected with the too-many-duplicates error only if the
\* vault has an entry at every candidate the loop derived, the last one
\* included: a free last candidate is used.
C37_ErrorOnlyIfAllOccupied ==
    (save[1].pc = "rejected" /\ save[1].error = "TooManyDuplicates") =>
       /\ save[1].finalPath \in DOMAIN vault
       /\ \A k \in 0..(save[1].counter - 1) : Series(k) \in DOMAIN vault

(***************************************************************************)
(* Properties of getConversationProcessingStatus: more pairs than the total *)
(***************************************************************************)
\* C36: with the total given, the status is PROCESSED only if the store
\* records no NEW pair of the conversation, also when it records more pairs
\* of the conversation than the total.
C36_ProcessedMeansNoNewPair ==
    (lastStatus.valid /\ lastStatus.given /\ lastStatus.result = "processed")
       => RecordedIn(lastStatus.conversationId, {"new"}) = {}

(***************************************************************************)
(* Properties of saveConversationMetadata on an absent document            *)
(***************************************************************************)
\* C35: a call none of whose vault operations threw for a reason other than
\* the document's absence (at the read) or presence (at the create) resolves,
\* and the document exists then: of two calls that both found the document
\* absent, the one whose create throws writes the document directly.
C35_CreateRaceFallsBack ==
    \A i \in Slots :
       (Settled(i) /\ ~calls[i].fault) =>
          /\ calls[i].pc = "resolved"
          /\ calls[i].persisted
          /\ metadataFile.exists

\* Two calls found the document absent; one created it, the create of the
\* other threw and its direct write returned: both have resolved.
C35_Witness ==
    \E i, j \in Slots :
       /\ calls[i].pc = "resolved" /\ calls[i].op = "create"
       /\ calls[j].pc = "resolved" /\ calls[j].op = "fallback"
       /\ ~calls[i].fault /\ ~calls[j].fault
       /\ metadataFile.exists

(***************************************************************************)
(* Properties of saveNote: the saveInProgress flag                         *)
(***************************************************************************)
\* The body of modal m's saveNote is between its entry and its exit.
BodyRunning(m) ==
    save[m].pc \in {"createFolder", "loop", "create", "fallbackCreate", "update"}

\* C34: the flag is set exactly while the body of the save that set it runs:
\* it is clear after every exit (success, folder error, collision bound,
\* create failure), a call thrown out meanwhile does not clear it, and a call
\* begins only while it is clear, so that a later save can proceed and no two
\* bodies run at once on a modal.
C34_FlagReleased ==
    [][\A m \in Modals :
          /\ save[m].saveInProgress <=> BodyRunning(m)
          /\ save'[m].saveInProgress <=> save'[m].pc \in
                {"createFolder", "loop", "create", "fallbackCreate", "update"}
          /\ save[m].pc \in {"resolved", "rejected"} => MayBegin(save[m])
          /\ save'[m].begun # save[m].begun => ~BodyRunning(m)
          /\ save'[m].blocked # save[m].blocked =>
                save'[m].saveInProgress /\ save'[m].pc = save[m].pc]_vars

\* The modal's first save was rejected; its second save has begun and ended
\* at the collision bound, and the flag is clear again.
C34_Witness ==
    /\ save[1].begun = 2
    /\ save[1].pc = "rejected"
    /\ save[1].error = "TooManyDuplicates"
    /\ ~save[1].saveInProgress

(***************************************************************************)
(* Properties of the import modal                                          *)
(***************************************************************************)
\* What a failed load must leave as it was.
Loaded(m) == <<m.conversations, m.viewMode, m.currentConversationIndex>>

C39_IndexWithinList ==
    (modal # NoModal /\ modal.viewMode = "conversation"
        /\ Len(modal.conversations) > 0)
       => /\ 0 <= modal.currentConversationIndex
          /\ modal.currentConversationIndex < Len(modal.conversations)

(***************************************************************************)
(* Properties of the conversation view                                     *)
(***************************************************************************)
\* The changes of state the buttons of the view stand for.
AllowedChanges ==
    { <<"new", "saved">>, <<"new", "ignored">>, <<"saved", "new">>,
      <<"saved", "saved">>, <<"ignored", "new">>, <<"ignored", "saved">> }

\* C38: through the buttons of the view and the save modal a pair's state
\* changes only from NEW to SAVED or IGNORED, from SAVED to NEW, and from
\* IGNORED to NEW or SAVED: a SAVED pair never becomes IGNORED at once, also
\* when a button drawn for an earlier state is activated while an update of
\* the pair is in flight.
C38_AllowedChangesOnly ==
    [][\A p \in PairIds :
          LET before == getQAPairState(metadataStore, p)
              after == getQAPairState(metadataStore', p)
          IN before # after => <<before, after>> \in AllowedChanges]_vars

\* C31: no operation the user started fails without a notice: a rejected
\* update of an ignore, reset or un-ignore, and a rejected update to SAVED
\* after the note was created, each put up an error's notice.
C31_FailuresSurface == view # NoView => ~view.silent

(***************************************************************************)
(* Properties of extractConversations: corrupt exports                     *)
(***************************************************************************)
\* C32: the walk of a mapping visits no node twice: on a mapping whose
\* children[0] chain comes back to a node the revisit is detected and ends
\* the walk, so that the walk ends on every finite mapping.
C32_RevisitEndsWalk ==
    \A i, j \in 1..Len(walked) : i # j => walked[i] # walked[j]

(***************************************************************************)
(* Properties of extractConversations                                      *)
(***************************************************************************)
RECURSIVE Closure(_, _, _)
\* The keys reachable from the set S along the edges Succ(k), within n rounds.
Closure(S, Succ(_), n) ==
    LET T == S \cup UNION {Succ(k) : k \in S}
    IN IF n = 0 \/ T = S THEN S ELSE Closure(T, Succ, n - 1)

FirstChildSet(k) ==
    IF Len(mapping[k].children) > 0
    THEN {mapping[k].children[1]} \cap DOMAIN mapping ELSE {}

AnyChildSet(k) ==
    {mapping[k].children[i] : i \in 1..Len(mapping[k].children)} \cap DOMAIN mapping

StartSet == IF FindRootNode(mapping) = 0 THEN {} ELSE {FindRootNode(mapping)}

\* start -> children[0] -> children[0] -> ...
PrimaryChain == Closure(StartSet, FirstChildSet, MaxNodes)

\* Everything below the start node, through any child.
Descendants == Closure(StartSet, AnyChildSet, MaxNodes)

EmittedIds == {messages[i].id : i \in 1..Len(messages)}

\* C1: every emitted message lies on the chain start -> children[0] -> ...; a
\* node below the start node that is reached only through a non-first child
\* never appears in the thread.
C1_FirstChildOnly ==
    /\ EmittedIds \subseteq PrimaryChain
    /\ \A k \in Descendants \ PrimaryChain : k \notin EmittedIds

\* A finished walk over a tree with a branch whose discarded side holds a
\* message that would have been emitted.
C1_Witness ==
    /\ epc = "done"
    /\ Len(messages) >= 2
    /\ \E k \in Descendants \ PrimaryChain : ShouldEmit(mapping[k])

\* Non-blank, stated on the parts: some part holds a non-whitespace character.
HasVisibleText(msg) ==
    /\ msg.hasParts
    /\ \E i \in 1..Len(msg.parts) :
          \E j \in 1..Len(msg.parts[i]) : msg.parts[i][j] \notin Whitespace

MustAppear(k) ==
    /\ ~mapping[k].message.isNull
    /\ mapping[k].message.role # "system"
    /\ HasVisibleText(mapping[k].message)

WalkedEmitted == SelectSeq(walked, MustAppear)

\* C2: a walked node is in the thread iff its message is non-null, not of role
\* system and its joined parts are non-blank; the entries are in walk order
\* and carry the node id, the role, the joined content and create_time or 0.
C2_EmittedIffVisible ==
    /\ Len(messages) = Len(WalkedEmitted)
    /\ \A i \in 1..Len(messages) :
          LET msg == mapping[WalkedEmitted[i]].message
          IN /\ messages[i].id = WalkedEmitted[i]
             /\ messages[i].role = msg.role
             /\ messages[i].content = Join(msg.parts, <<"\n">>)
             /\ messages[i].timestamp =
                   (IF msg.hasTime THEN msg.create_time ELSE 0)

\* A finished walk that passed a blank message and a message without
\* create_time, whose entry has timestamp 0 and a two-part content.
C2_Witness ==
    /\ epc = "done"
    /\ \E i \in 1..Len(walked) :
          /\ ~mapping[walked[i]].message.isNull
          /\ mapping[walked[i]].message.role = "assistant"
          /\ ~MustAppear(walked[i])
    /\ \E i \in 1..Len(messages) :
          /\ messages[i].timestamp = 0
          /\ messages[i].content = <<"a", "\n", "b">>

HasFirstChild(k) ==
    /\ Len(mapping[k].children) > 0
    /\ mapping[k].children[1] \in DOMAIN mapping

\* C3: the walk goes from every walked node, emitted or not, to its first
\* child, and ends only at a node without children or whose first child id is
\* not in the mapping.
C3_SkippedNodeContinues ==
    /\ \A i \in 1..Len(walked) :
          HasFirstChild(walked[i]) =>
             (IF i < Len(walked) THEN walked[i + 1] ELSE current)
                = mapping[walked[i]].children[1]
    /\ (epc = "done" /\ Len(walked) > 0) => ~HasFirstChild(walked[Len(walked)])

\* A finished walk that went through a tombstone and emitted a message after
\* it.
C3_Witness ==
    /\ epc = "done"
    /\ \E i, l \in 1..Len(walked) :
          /\ i < l
          /\ mapping[walked[i]].message.isNull
          /\ MustAppear(walked[l])

\* The nodes the walk may start at, stated on the mapping.
RootCandidates ==
    {k \in DOMAIN mapping :
        /\ ~mapping[k].message.isNull
        /\ mapping[k].message.role = "user"
        /\ \E p \in DOMAIN mapping :
              /\ mapping[k].parent = p
              /\ ~mapping[p].message.isNull
              /\ mapping[p].message.role = "system"}

WalkStart == IF walked = <<>> THEN current ELSE walked[1]

\* C4: the walk starts at the first node in iteration order that is a user
\* message with a system parent; without one the thread is empty.
C4_StartNode ==
    epc # "find" =>
       IF RootCandidates = {}
       THEN WalkStart = 0 /\ messages = <<>> /\ walked = <<>>
       ELSE /\ WalkStart \in RootCandidates
            /\ \A k \in RootCandidates : WalkStart <= k

\* A finished walk of a mapping with two candidates and a user message whose
\* parent is no system message.
C4_Witness ==
    /\ epc = "done"
    /\ Cardinality(RootCandidates) >= 2
    /\ \E k \in DOMAIN mapping \ RootCandidates :
          /\ ~mapping[k].message.isNull
          /\ mapping[k].message.role = "user"
          /\ mapping[k].parent # 0

====
